---- MODULE Spec2Model ----
(***************************************************************************)
(* Model of the uk_polling_api package: the Wikipedia scrape pipeline      *)
(* (scraper.py), the in-memory PollingStore (store.py) and the refresh     *)
(* entry point (app.py).                                                   *)
(*                                                                         *)
(* Conventions                                                             *)
(*  - A Python str is a sequence of one-character strings.  The three dash *)
(*    glyphs and the no-break space are the tokens "EN_DASH", "EM_DASH",   *)
(*    "MINUS" and "NBSP".                                                  *)
(*  - Optional[T] is a sequence of length at most one: None is << >> and   *)
(*    a present value v is <<v>>.                                          *)
(*  - A float percentage is held in hundredths of a point (19.3 is 1930);  *)
(*    the cell texts of the model carry at most two decimals.              *)
(*  - A datetime.date is the integer year*10000 + month*100 + day, which   *)
(*    orders as dates do.                                                   *)
(***************************************************************************)
EXTENDS Integers, Sequences, FiniteSets, TLC

\* ------------------------------------------------------------------------
\* Optional values
\* ------------------------------------------------------------------------
None == << >>

Some(v) == <<v>>

IsNone(o) == o = << >>

Get(o) == o[1]

Max(S) == CHOOSE x \in S : \A y \in S : y <= x

Min(S) == CHOOSE x \in S : \A y \in S : x <= y

\* F(e) with e evaluated once: the LET of a value that is used many times
Eval(e, F(_)) == CHOOSE r \in {F(x) : x \in {e}} : TRUE

\* ------------------------------------------------------------------------
\* Characters and str methods
\* ------------------------------------------------------------------------
UpperChars == <<"A", "B", "C", "D", "E", "F", "G", "H", "I", "J", "K", "L", "M", "N", "O", "P", "Q", "R", "S", "T", "U", "V", "W", "X", "Y", "Z">>

LowerChars == <<"a", "b", "c", "d", "e", "f", "g", "h", "i", "j", "k", "l", "m", "n", "o", "p", "q", "r", "s", "t", "u", "v", "w", "x", "y", "z">>

Digits == <<"0", "1", "2", "3", "4", "5", "6", "7", "8", "9">>

IsDigit(c) == \E i \in 1..Len(Digits) : Digits[i] = c

DigitVal(c) == (CHOOSE i \in 1..Len(Digits) : Digits[i] = c) - 1

IsUpper(c) == \E i \in 1..Len(UpperChars) : UpperChars[i] = c

IsLower(c) == \E i \in 1..Len(LowerChars) : LowerChars[i] = c

\* [A-Za-z]
IsAlpha(c) == IsUpper(c) \/ IsLower(c)

\* what str.strip() removes and the regex class \s matches
IsSpace(c) == c \in {" ", "NBSP"}

\* the separators of the class [EN_DASH EM_DASH \- MINUS]
IsDash(c) == c \in {"EN_DASH", "EM_DASH", "-", "MINUS"}

LowerChar(c) ==
    IF IsUpper(c) THEN LowerChars[CHOOSE i \in 1..Len(UpperChars) : UpperChars[i] = c]
    ELSE c

\* str.lower()
Lower(s) == [i \in 1..Len(s) |-> LowerChar(s[i])]

\* str.strip()
Strip(s) ==
    LET keep == {i \in 1..Len(s) : ~IsSpace(s[i])}
    IN  IF keep = {} THEN << >> ELSE SubSeq(s, Min(keep), Max(keep))

\* str.replace(c, "") for every character c of the set cs
RemoveChars(s, cs) == SelectSeq(s, LAMBDA c : c \notin cs)

\* sub in s
Contains(s, sub) ==
    \E i \in 1..(Len(s) - Len(sub) + 1) : SubSeq(s, i, i + Len(sub) - 1) = sub

\* the end of the longest run of digits starting at i (i - 1 when s[i] is none)
DigitRunEnd(s, i) ==
    Max({j \in (i - 1)..Len(s) : \A k \in i..j : IsDigit(s[k])})

AlphaRunEnd(s, i) ==
    Max({j \in (i - 1)..Len(s) : \A k \in i..j : IsAlpha(s[k])})

SpaceRunEnd(s, i) ==
    Max({j \in (i - 1)..Len(s) : \A k \in i..j : IsSpace(s[k])})

RECURSIVE DigitsToInt(_)
\* int() of a run of decimal digits
DigitsToInt(s) ==
    IF s = << >> THEN 0
    ELSE 10 * DigitsToInt(SubSeq(s, 1, Len(s) - 1)) + DigitVal(s[Len(s)])

\* int(x) of an attribute string: optional surrounding whitespace, an
\* optional sign, then one or more digits; anything else is a ValueError
IntParse(s) ==
    LET t    == Strip(s)
        sign == IF t # << >> /\ t[1] \in {"-", "+"} THEN 1 ELSE 0
        body == SubSeq(t, sign + 1, Len(t))
    IN  IF body # << >> /\ \A i \in 1..Len(body) : IsDigit(body[i])
        THEN [ok |-> TRUE,
              val |-> IF sign = 1 /\ t[1] = "-" THEN 0 - DigitsToInt(body)
                      ELSE DigitsToInt(body)]
        ELSE [ok |-> FALSE, val |-> 0]

\* ------------------------------------------------------------------------
\* Field value parsers (scraper.py)
\* ------------------------------------------------------------------------
\* float(m) for the match m of (\d+\.?\d*), in hundredths
FloatOf(int_part, frac_part) ==
    LET f == SubSeq(frac_part \o <<"0", "0">>, 1, 2)
    IN  100 * DigitsToInt(int_part) + DigitsToInt(f)

\* re.search(r"(\d+\.?\d*)", text) and float() of the match
FloatSearch(text) ==
    LET starts == {i \in 1..Len(text) : IsDigit(text[i])}
    IN  IF starts = {} THEN None
        ELSE LET i  == Min(starts)
                 j  == DigitRunEnd(text, i)
                 dot == j < Len(text) /\ text[j + 1] = "."
                 k  == IF dot THEN DigitRunEnd(text, j + 2) ELSE j
             IN  Some(FloatOf(SubSeq(text, i, j),
                              IF dot THEN SubSeq(text, j + 2, k) ELSE << >>))

_parse_percentage(text0) ==
    Eval(RemoveChars(Strip(text0), {"EN_DASH", "EM_DASH", "MINUS"}),
         LAMBDA text : IF text = << >> \/ text = <<"N", "/", "A">> THEN None
                       ELSE FloatSearch(text))

\* re.search(r"(\d{3,})", text) and int() of the match
LongDigitsSearch(text) ==
    LET starts == {i \in 1..Len(text) : DigitRunEnd(text, i) >= i + 2}
    IN  IF starts = {} THEN None
        ELSE Some(DigitsToInt(SubSeq(text, Min(starts), DigitRunEnd(text, Min(starts)))))

_parse_sample_size(text0) ==
    Eval(RemoveChars(Strip(text0), {",", " "}), LongDigitsSearch)

\* the months table of _parse_date_text
months ==
    << [key |-> <<"j", "a", "n">>, month |-> 1],
       [key |-> <<"f", "e", "b">>, month |-> 2],
       [key |-> <<"m", "a", "r">>, month |-> 3],
       [key |-> <<"a", "p", "r">>, month |-> 4],
       [key |-> <<"m", "a", "y">>, month |-> 5],
       [key |-> <<"j", "u", "n">>, month |-> 6],
       [key |-> <<"j", "u", "l">>, month |-> 7],
       [key |-> <<"a", "u", "g">>, month |-> 8],
       [key |-> <<"s", "e", "p">>, month |-> 9],
       [key |-> <<"o", "c", "t">>, month |-> 10],
       [key |-> <<"n", "o", "v">>, month |-> 11],
       [key |-> <<"d", "e", "c">>, month |-> 12],
       [key |-> <<"j", "a", "n", "u", "a", "r", "y">>, month |-> 1],
       [key |-> <<"f", "e", "b", "r", "u", "a", "r", "y">>, month |-> 2],
       [key |-> <<"m", "a", "r", "c", "h">>, month |-> 3],
       [key |-> <<"a", "p", "r", "i", "l">>, month |-> 4],
       [key |-> <<"j", "u", "n", "e">>, month |-> 6],
       [key |-> <<"j", "u", "l", "y">>, month |-> 7],
       [key |-> <<"a", "u", "g", "u", "s", "t">>, month |-> 8],
       [key |-> <<"s", "e", "p", "t", "e", "m", "b", "e", "r">>, month |-> 9],
       [key |-> <<"o", "c", "t", "o", "b", "e", "r">>, month |-> 10],
       [key |-> <<"n", "o", "v", "e", "m", "b", "e", "r">>, month |-> 11],
       [key |-> <<"d", "e", "c", "e", "m", "b", "e", "r">>, month |-> 12] >>

\* months.get(name): None when the name is no key
MonthOf(name) ==
    LET hits == {i \in 1..Len(months) : months[i].key = name}
    IN  IF hits = {} THEN None ELSE Some(months[Min(hits)].month)

IsLeap(y) == (y % 4 = 0 /\ y % 100 # 0) \/ y % 400 = 0

DaysInMonth(y, m) ==
    IF m = 2 THEN (IF IsLeap(y) THEN 29 ELSE 28)
    ELSE IF m \in {4, 6, 9, 11} THEN 30 ELSE 31

\* datetime.date(y, m, d) inside try/except ValueError: None on ValueError
DateOrNone(y, m, d) ==
    IF y >= 1 /\ y <= 9999 /\ m >= 1 /\ m <= 12 /\ d >= 1 /\ d <= DaysInMonth(y, m)
    THEN Some(y * 10000 + m * 100 + d)
    ELSE None

\* date.min
DateMin == 10101

DateMonth(d) == (d \div 100) % 100

\* re.search(r"20\d{2}", text): the year of the leftmost match, or None
YearSearch(text) ==
    LET starts == {i \in 1..(Len(text) - 3) :
                      /\ text[i] = "2" /\ text[i + 1] = "0"
                      /\ IsDigit(text[i + 2]) /\ IsDigit(text[i + 3])}
    IN  IF starts = {} THEN None
        ELSE Some(DigitsToInt(SubSeq(text, Min(starts), Min(starts) + 3)))

\* whether (\d{1,2})\s+([A-Za-z]+) matches at i with a day of k digits
DayMonthAt(text, i, k) ==
    /\ i + k <= Len(text)
    /\ \A d \in i..(i + k - 1) : IsDigit(text[d])
    /\ IsSpace(text[i + k])
    /\ SpaceRunEnd(text, i + k) < Len(text)
    /\ IsAlpha(text[SpaceRunEnd(text, i + k) + 1])

\* re.search(r"(\d{1,2})\s+([A-Za-z]+)", text): None, or the two groups
DayMonthSearch(text) ==
    LET hits == {i \in 1..Len(text) : \E k \in {1, 2} : DayMonthAt(text, i, k)}
    IN  IF hits = {} THEN None
        ELSE LET i == Min(hits)
                 k == IF DayMonthAt(text, i, 2) THEN 2 ELSE 1
                 a == SpaceRunEnd(text, i + k) + 1
             IN  Some([day |-> DigitsToInt(SubSeq(text, i, i + k - 1)),
                       month_str |-> Lower(SubSeq(text, a, AlphaRunEnd(text, a)))])

\* year0 is the Optional year argument, today_year is date.today().year
\* lines 88-106 on the stripped text
DateOfText(text, year0, today_year) ==
    LET year == IF IsNone(year0) \/ year0 = Some(0)
                THEN (IF IsNone(YearSearch(text)) THEN today_year
                      ELSE Get(YearSearch(text)))
                ELSE Get(year0)
    IN  Eval(DayMonthSearch(text),
             LAMBDA m :
                IF IsNone(m) THEN None
                ELSE LET day   == Get(m).day
                         month == MonthOf(Get(m).month_str)
                     IN  IF ~IsNone(month) /\ 1 <= day /\ day <= 31
                         THEN DateOrNone(year, Get(month), day)
                         ELSE None)

_parse_date_text(text0, year0, today_year) ==
    Eval(Strip(text0),
         LAMBDA text : IF text = << >> THEN None ELSE DateOfText(text, year0, today_year))

\* re.split(r"[EN_DASH EM_DASH \- MINUS]", text, maxsplit=1)
SplitOnDash(text) ==
    LET at == {i \in 1..Len(text) : IsDash(text[i])}
    IN  IF at = {} THEN <<text>>
        ELSE <<SubSeq(text, 1, Min(at) - 1), SubSeq(text, Min(at) + 1, Len(text))>>

\* re.search(r"(\d{1,2})", text): None or the matched day number
DaySearch(text) ==
    LET starts == {i \in 1..Len(text) : IsDigit(text[i])}
    IN  IF starts = {} THEN None
        ELSE LET i == Min(starts)
                 j == IF DigitRunEnd(text, i) > i THEN i + 1 ELSE i
             IN  Some(DigitsToInt(SubSeq(text, i, j)))

\* returns the pair [start, end_] of Optional dates
\* lines 123-137 with the year and the parts of the split
RangeOfParts(text, parts, year, today_year) ==
    IF Len(parts) = 2
    THEN Eval(<<_parse_date_text(Strip(parts[2]), Some(year), today_year),
                _parse_date_text(Strip(parts[1]), Some(year), today_year)>>,
              LAMBDA d :
                 LET end_date   == d[1]
                     start_date == d[2]
                     day_match  == DaySearch(Strip(parts[1]))
                 IN  IF IsNone(start_date) /\ ~IsNone(end_date) /\ ~IsNone(day_match)
                     THEN [start |-> DateOrNone(year, DateMonth(Get(end_date)), Get(day_match)),
                           end_ |-> end_date]
                     ELSE [start |-> start_date, end_ |-> end_date])
    ELSE Eval(_parse_date_text(text, Some(year), today_year),
              LAMBDA d : [start |-> d, end_ |-> d])

\* line 119 with the year of the text never looked for
_parse_fieldwork_dates_TodayOnly(text0, today_year) ==
    Eval(Strip(text0),
         LAMBDA text :
            IF text = << >> THEN [start |-> None, end_ |-> None]
            ELSE Eval(<<SplitOnDash(text), today_year>>,
                      LAMBDA py : RangeOfParts(text, py[1], py[2], today_year)))

_parse_fieldwork_dates(text0, today_year) ==
    Eval(Strip(text0),
         LAMBDA text :
            IF text = << >> THEN [start |-> None, end_ |-> None]
            ELSE Eval(<<SplitOnDash(text),
                        IF IsNone(YearSearch(text)) THEN today_year ELSE Get(YearSearch(text))>>,
                      LAMBDA py : RangeOfParts(text, py[1], py[2], today_year)))

\* ------------------------------------------------------------------------
\* Column identifier (scraper.py)
\* ------------------------------------------------------------------------
PARTY_COLUMN_MAP ==
    << [key |-> <<"c", "o", "n">>, field |-> "con"],
       [key |-> <<"c", "o", "n", "s", "e", "r", "v", "a", "t", "i", "v", "e">>, field |-> "con"],
       [key |-> <<"l", "a", "b">>, field |-> "lab"],
       [key |-> <<"l", "a", "b", "o", "u", "r">>, field |-> "lab"],
       [key |-> <<"l", "i", "b", " ", "d", "e", "m">>, field |-> "lib_dem"],
       [key |-> <<"l", "i", "b", "d", "e", "m">>, field |-> "lib_dem"],
       [key |-> <<"l", "d">>, field |-> "lib_dem"],
       [key |-> <<"l", "i", "b", "e", "r", "a", "l", " ", "d", "e", "m", "o", "c", "r", "a", "t", "s">>, field |-> "lib_dem"],
       [key |-> <<"r", "e", "f", "o", "r", "m">>, field |-> "reform"],
       [key |-> <<"r", "e", "f", "o", "r", "m", " ", "u", "k">>, field |-> "reform"],
       [key |-> <<"r", "e", "f">>, field |-> "reform"],
       [key |-> <<"g", "r", "e", "e", "n">>, field |-> "green"],
       [key |-> <<"g", "r", "e", "e", "n", "s">>, field |-> "green"],
       [key |-> <<"s", "n", "p">>, field |-> "snp"],
       [key |-> <<"o", "t", "h", "e", "r">>, field |-> "other"],
       [key |-> <<"o", "t", "h", "e", "r", "s">>, field |-> "other"] >>

\* the rule of lines 151-152 tried before the rule of lines 149-150
FieldOf_ClientFirst(h) ==
    LET hits == {i \in 1..Len(PARTY_COLUMN_MAP) : PARTY_COLUMN_MAP[i].key = h}
    IN  IF hits # {} THEN PARTY_COLUMN_MAP[Min(hits)].field
        ELSE IF Contains(h, <<"d", "a", "t", "e">>)
                \/ Contains(h, <<"f", "i", "e", "l", "d", "w", "o", "r", "k">>)
        THEN "fieldwork"
        ELSE IF Contains(h, <<"c", "l", "i", "e", "n", "t">>)
                \/ Contains(h, <<"c", "o", "m", "m", "i", "s", "s", "i", "o", "n", "e", "r">>)
        THEN "client"
        ELSE IF Contains(h, <<"p", "o", "l", "l", "i", "n", "g">>)
                \/ Contains(h, <<"p", "o", "l", "l", "s", "t", "e", "r">>)
                \/ Contains(h, <<"o", "r", "g", "a", "n", "i", "s", "a", "t", "i", "o", "n">>)
        THEN "pollster"
        ELSE IF Contains(h, <<"s", "a", "m", "p", "l", "e">>)
                \/ Contains(h, <<"s", "i", "z", "e">>)
        THEN "sample_size"
        ELSE IF Contains(h, <<"a", "r", "e", "a">>) THEN "area"
        ELSE IF Contains(h, <<"l", "e", "a", "d">>) THEN "lead"
        ELSE ""

\* lines 145-158 for the trimmed, lower-cased header text h: the field it
\* names, or "" when it names none
FieldOf(h) ==
    LET hits == {i \in 1..Len(PARTY_COLUMN_MAP) : PARTY_COLUMN_MAP[i].key = h}
    IN  IF hits # {} THEN PARTY_COLUMN_MAP[Min(hits)].field
        ELSE IF Contains(h, <<"d", "a", "t", "e">>)
                \/ Contains(h, <<"f", "i", "e", "l", "d", "w", "o", "r", "k">>)
        THEN "fieldwork"
        ELSE IF Contains(h, <<"p", "o", "l", "l", "i", "n", "g">>)
                \/ Contains(h, <<"p", "o", "l", "l", "s", "t", "e", "r">>)
                \/ Contains(h, <<"o", "r", "g", "a", "n", "i", "s", "a", "t", "i", "o", "n">>)
        THEN "pollster"
        ELSE IF Contains(h, <<"c", "l", "i", "e", "n", "t">>)
                \/ Contains(h, <<"c", "o", "m", "m", "i", "s", "s", "i", "o", "n", "e", "r">>)
        THEN "client"
        ELSE IF Contains(h, <<"s", "a", "m", "p", "l", "e">>)
                \/ Contains(h, <<"s", "i", "z", "e">>)
        THEN "sample_size"
        ELSE IF Contains(h, <<"a", "r", "e", "a">>) THEN "area"
        ELSE IF Contains(h, <<"l", "e", "a", "d">>) THEN "lead"
        ELSE ""

HeaderField(header) == Eval(Lower(Strip(header)), FieldOf)

RECURSIVE IdentifyFrom(_, _)
IdentifyFrom(header_cells, i) ==
    IF i > Len(header_cells) THEN << >>
    ELSE Eval(HeaderField(header_cells[i]),
              LAMBDA f : IF f = "" THEN << >> ELSE <<[col |-> i, field |-> f]>>)
         \o IdentifyFrom(header_cells, i + 1)

\* the dict col_map as the sequence of its items in insertion order; a
\* column index is the code's index plus one
_identify_columns(header_cells) == IdentifyFrom(header_cells, 1)

\* ------------------------------------------------------------------------
\* Table grid builder (scraper.py)
\* A table is a sequence of rows (tr), a row a sequence of cells (th, td),
\* a cell [text, rowspan, colspan] with text the result of
\* get_text(strip=True) and the two attributes Optional strings.
\* ------------------------------------------------------------------------
\* int(cell.get(name, 1))
AttrInt(attr) == IF IsNone(attr) THEN [ok |-> TRUE, val |-> 1] ELSE IntParse(Get(attr))

RECURSIVE SumColspans(_, _)
SumColspans(cells, k) ==
    IF k > Len(cells) THEN 0
    ELSE AttrInt(cells[k].colspan).val + SumColspans(cells, k + 1)

\* first pass: ValueError when some colspan is no integer, else max_cols
GridWidth(table) ==
    IF \E r \in 1..Len(table) : \E k \in 1..Len(table[r]) : ~AttrInt(table[r][k].colspan).ok
    THEN [exc |-> "ValueError", max_cols |-> 0]
    ELSE [exc |-> "none",
          max_cols |-> Max({0} \cup {SumColspans(table[r], 1) : r \in 1..Len(table)})]

\* the position in a list of length n that the Python index c reads or
\* writes (negative c counts from the end); 0 when c is out of range
PyPos(c, n) ==
    IF c >= 0 /\ c < n THEN c + 1
    ELSE IF c < 0 /\ c >= 0 - n THEN c + n + 1
    ELSE 0

RECURSIVE NextEmpty(_, _, _)
\* the while loop of lines 186-187; -1000 stands for the IndexError of
\* grid[row_idx][col_idx] with col_idx below -len(row)
NextEmpty(row, col_idx, max_cols) ==
    IF col_idx < max_cols
    THEN IF PyPos(col_idx, Len(row)) = 0 THEN -1000
         ELSE IF ~IsNone(row[PyPos(col_idx, Len(row))])
         THEN NextEmpty(row, col_idx + 1, max_cols)
         ELSE col_idx
    ELSE col_idx

\* lines 195-199: the rowspan x colspan rectangle written with the text
FillRect(grid, row_idx, col_idx, rowspan, colspan, max_cols, text) ==
    [r \in 1..Len(grid) |->
        [j \in 1..Len(grid[r]) |->
            IF \E dr \in 0..(rowspan - 1) : \E dc \in 0..(colspan - 1) :
                   /\ r = row_idx + dr
                   /\ col_idx + dc < max_cols
                   /\ PyPos(col_idx + dc, Len(grid[r])) = j
            THEN Some(text)
            ELSE grid[r][j]]]

\* lines 185-201 for one cell: [exc, stop, grid, col_idx] with stop the
\* break of line 189
PlaceCell(grid, row_idx, cell, col_idx0, max_cols) ==
    LET col_idx == NextEmpty(grid[row_idx], col_idx0, max_cols)
        rowspan == AttrInt(cell.rowspan)
        colspan == AttrInt(cell.colspan)
    IN  IF col_idx = -1000
        THEN [exc |-> "IndexError", stop |-> TRUE, grid |-> grid, col_idx |-> col_idx0]
        ELSE IF col_idx >= max_cols
        THEN [exc |-> "none", stop |-> TRUE, grid |-> grid, col_idx |-> col_idx]
        ELSE IF ~rowspan.ok \/ ~colspan.ok
        THEN [exc |-> "ValueError", stop |-> TRUE, grid |-> grid, col_idx |-> col_idx]
        ELSE [exc |-> "none", stop |-> FALSE,
              grid |-> FillRect(grid, row_idx, col_idx, rowspan.val, colspan.val,
                                max_cols, cell.text),
              col_idx |-> col_idx + colspan.val]

RECURSIVE PlaceCells(_, _, _, _, _, _)
\* the inner loop over the cells of row row_idx, from cell k on (each
\* cell's outcome st is computed once, as a bound value)
PlaceCells(grid, row_idx, cells, k, col_idx0, max_cols) ==
    IF k > Len(cells) THEN [exc |-> "none", grid |-> grid]
    ELSE CHOOSE out \in
            {IF st.stop THEN [exc |-> st.exc, grid |-> st.grid]
             ELSE PlaceCells(st.grid, row_idx, cells, k + 1, st.col_idx, max_cols) :
                st \in {PlaceCell(grid, row_idx, cells[k], col_idx0, max_cols)}} : TRUE

RECURSIVE PlaceRows(_, _, _, _)
PlaceRows(grid, table, row_idx, max_cols) ==
    IF row_idx > Len(table) THEN [exc |-> "none", grid |-> grid]
    ELSE CHOOSE out \in
            {IF done.exc # "none" THEN done
             ELSE PlaceRows(done.grid, table, row_idx + 1, max_cols) :
                done \in {PlaceCells(grid, row_idx, table[row_idx], 1, 0, max_cols)}} : TRUE

\* [exc, grid]: the exception raised ("none" when none) and the grid
_expand_rowspans(table) ==
    IF Len(table) = 0 THEN [exc |-> "none", grid |-> << >>]
    ELSE LET w == GridWidth(table)
         IN  IF w.exc # "none" THEN [exc |-> w.exc, grid |-> << >>]
             ELSE LET empty  == [r \in 1..Len(table) |-> [j \in 1..w.max_cols |-> None]]
                      placed == PlaceRows(empty, table, 1, w.max_cols)
                  IN  IF placed.exc # "none" THEN [exc |-> placed.exc, grid |-> << >>]
                      ELSE [exc |-> "none",
                            grid |-> [r \in 1..Len(table) |->
                                        [j \in 1..w.max_cols |->
                                            IF IsNone(placed.grid[r][j]) THEN << >>
                                            ELSE Get(placed.grid[r][j])]]]

\* ------------------------------------------------------------------------
\* Row-to-record mapper (scraper.py, scrape_polls)
\* ------------------------------------------------------------------------
WIKI_URL == "WIKI_URL"

party_fields == {"con", "lab", "lib_dem", "reform", "green", "snp", "other"}

party_display(p) ==
    CASE p = "con" -> "Conservative"
      [] p = "lab" -> "Labour"
      [] p = "lib_dem" -> "Liberal Democrats"
      [] p = "reform" -> "Reform UK"
      [] p = "green" -> "Green"
      [] p = "snp" -> "SNP"
      [] p = "other" -> "Other"
      [] OTHER -> p

\* line 270 without the filter: every cell is counted
NonEmptyCount_AllCells(row) == Len(row)

\* lines 270-271: the cells c of the row with c.strip() non-empty
NonEmptyCount(row) == Cardinality({j \in 1..Len(row) : Strip(row[j]) # << >>})

\* the text a field's assignment in the loop of lines 277-295 ends with:
\* the cell of the last column the map gives the field; None when the map
\* has no such column, so that data holds no such key
LastCellOf(row, col_map, field) ==
    LET ks == {k \in 1..Len(col_map) : col_map[k].field = field /\ col_map[k].col <= Len(row)}
    IN  IF ks = {} THEN None ELSE Some(row[col_map[Max(ks)].col])

RECURSIVE BuildPartyValues_StopAtBad(_, _, _, _)
\* the column loop left at the first party cell that does not parse
BuildPartyValues_StopAtBad(row, col_map, k, acc) ==
    IF k > Len(col_map) THEN acc
    ELSE LET e == col_map[k]
         IN  IF e.col > Len(row) \/ e.field \notin party_fields
             THEN BuildPartyValues_StopAtBad(row, col_map, k + 1, acc)
             ELSE IF IsNone(_parse_percentage(row[e.col])) THEN acc
             ELSE BuildPartyValues_StopAtBad(row, col_map, k + 1,
                     Append(acc, [p |-> e.field, v |-> _parse_percentage(row[e.col])]))

RECURSIVE BuildPartyValues_TrustsLead(_, _, _, _)
\* the lead cell read as a party value of its own
BuildPartyValues_TrustsLead(row, col_map, k, acc) ==
    IF k > Len(col_map) THEN acc
    ELSE LET e == col_map[k]
         IN  IF e.col > Len(row) \/ e.field \notin (party_fields \cup {"lead"})
             THEN BuildPartyValues_TrustsLead(row, col_map, k + 1, acc)
             ELSE BuildPartyValues_TrustsLead(row, col_map, k + 1,
                     Append(acc, [p |-> IF e.field = "lead" THEN "other" ELSE e.field,
                                  v |-> _parse_percentage(row[e.col])]))

RECURSIVE BuildPartyValues(_, _, _, _)
\* the dict party_values as the sequence of its items in insertion order:
\* a key first assigned keeps its place when it is assigned again
BuildPartyValues(row, col_map, k, acc) ==
    IF k > Len(col_map) THEN acc
    ELSE LET e == col_map[k]
         IN  IF e.col > Len(row) \/ e.field \notin party_fields
             THEN BuildPartyValues(row, col_map, k + 1, acc)
             ELSE Eval(LET v  == _parse_percentage(row[e.col])
                           at == {i \in 1..Len(acc) : acc[i].p = e.field}
                       IN  IF at = {} THEN Append(acc, [p |-> e.field, v |-> v])
                           ELSE [acc EXCEPT ![Min(at)].v = v],
                       LAMBDA acc2 : BuildPartyValues(row, col_map, k + 1, acc2))

RECURSIVE LeadScan_LastWins(_, _, _, _)
\* line 306 with >= for >: the last of the tied parties wins
LeadScan_LastWins(party_values, k, best_party, best_val) ==
    IF k > Len(party_values) THEN [best_party |-> best_party, best_val |-> best_val]
    ELSE IF ~IsNone(party_values[k].v) /\ Get(party_values[k].v) >= best_val
    THEN LeadScan_LastWins(party_values, k + 1, Some(party_values[k].p), Get(party_values[k].v))
    ELSE LeadScan_LastWins(party_values, k + 1, best_party, best_val)

RECURSIVE LeadScan(_, _, _, _)
\* lines 303-308; best_val starts at -1.0
LeadScan(party_values, k, best_party, best_val) ==
    IF k > Len(party_values) THEN [best_party |-> best_party, best_val |-> best_val]
    ELSE IF ~IsNone(party_values[k].v) /\ Get(party_values[k].v) > best_val
    THEN LeadScan(party_values, k + 1, Some(party_values[k].p), Get(party_values[k].v))
    ELSE LeadScan(party_values, k + 1, best_party, best_val)

RECURSIVE SecondScan_FirstOther(_, _, _, _)
\* line 313 without "v > second_val": the last other value is taken, not
\* the largest
SecondScan_FirstOther(party_values, k, best_party, second_val) ==
    IF k > Len(party_values) THEN second_val
    ELSE IF /\ ~IsNone(party_values[k].v)
            /\ Some(party_values[k].p) # best_party
    THEN SecondScan_FirstOther(party_values, k + 1, best_party, Get(party_values[k].v))
    ELSE SecondScan_FirstOther(party_values, k + 1, best_party, second_val)

RECURSIVE SecondScan(_, _, _, _)
\* lines 311-314; second_val starts at -1.0
SecondScan(party_values, k, best_party, second_val) ==
    IF k > Len(party_values) THEN second_val
    ELSE IF /\ ~IsNone(party_values[k].v)
            /\ Some(party_values[k].p) # best_party
            /\ Get(party_values[k].v) > second_val
    THEN SecondScan(party_values, k + 1, best_party, Get(party_values[k].v))
    ELSE SecondScan(party_values, k + 1, best_party, second_val)

\* round(x, 1) of a non-negative x in hundredths.  A difference that ends in
\* exactly 5 hundredths goes the way the binary value of the float falls;
\* it is taken here to the even tenth, and the cell texts of the model give
\* no such difference.
Round1(x) ==
    LET lo == (x \div 10) * 10
        r  == x % 10
    IN  IF r < 5 THEN lo
        ELSE IF r > 5 THEN lo + 10
        ELSE IF (x \div 10) % 2 = 0 THEN lo ELSE lo + 10

\* party_values.get(p)
PartyGet(party_values, p) ==
    LET at == {i \in 1..Len(party_values) : party_values[i].p = p}
    IN  IF at = {} THEN None ELSE party_values[Min(at)].v

\* the pollster text of line 298
RowPollster(row, col_map) ==
    LET c == LastCellOf(row, col_map, "pollster")
    IN  IF IsNone(c) THEN << >> ELSE Strip(Get(c))

\* line 299 with "and" for "or": a row is dropped only when it lacks both
RowKept_And(pollster, party_values) ==
    ~(pollster = << >> /\ \A i \in 1..Len(party_values) : IsNone(party_values[i].v))

\* the test of line 299 that keeps a row
RowKept(pollster, party_values) ==
    ~(pollster = << >> \/ \A i \in 1..Len(party_values) : IsNone(party_values[i].v))

\* lines 302-345 for the party values of a kept row
PollOf(row, col_map, today_year, url, party_values) ==
    LET fw_cell    == LastCellOf(row, col_map, "fieldwork")
        cl_cell    == LastCellOf(row, col_map, "client")
        ss_cell    == LastCellOf(row, col_map, "sample_size")
        lead       == LeadScan(party_values, 1, None, -100)
        second_val == SecondScan(party_values, 1, lead.best_party, -100)
    IN  Eval(IF IsNone(fw_cell) THEN [start |-> None, end_ |-> None]
             ELSE _parse_fieldwork_dates(Get(fw_cell), today_year),
             LAMBDA fw :
        [pollster        |-> RowPollster(row, col_map),
         client          |-> IF IsNone(cl_cell) \/ cl_cell = Some(<< >>) THEN None ELSE cl_cell,
         fieldwork_start |-> fw.start,
         fieldwork_end   |-> fw.end_,
         sample_size     |-> IF IsNone(ss_cell) THEN None ELSE _parse_sample_size(Get(ss_cell)),
         con             |-> PartyGet(party_values, "con"),
         lab             |-> PartyGet(party_values, "lab"),
         lib_dem         |-> PartyGet(party_values, "lib_dem"),
         reform          |-> PartyGet(party_values, "reform"),
         green           |-> PartyGet(party_values, "green"),
         snp             |-> PartyGet(party_values, "snp"),
         other           |-> PartyGet(party_values, "other"),
         lead_party      |-> IF IsNone(lead.best_party) THEN None
                             ELSE Some(party_display(Get(lead.best_party))),
         lead_pct        |-> IF second_val >= 0 THEN Some(Round1(lead.best_val - second_val))
                             ELSE None,
         source_url      |-> Some(url)])

\* the PollResult a kept row gives
MakePoll(row, col_map, today_year, url) ==
    Eval(BuildPartyValues(row, col_map, 1, << >>),
         LAMBDA party_values : PollOf(row, col_map, today_year, url, party_values))

\* ------------------------------------------------------------------------
\* Ordering (scraper.py lines 351-354, store.py lines 42-46)
\* ------------------------------------------------------------------------
\* key=lambda p: p.fieldwork_end or date.min
SortKey(p) == IF IsNone(p.fieldwork_end) THEN DateMin ELSE Get(p.fieldwork_end)

\* x put into a list in descending key order, behind the elements whose key
\* is not smaller (the sort is stable, also with reverse=True)
InsertDesc(sorted, x) ==
    LET before == {i \in 0..Len(sorted) : \A j \in 1..i : SortKey(sorted[j]) >= SortKey(x)}
        n      == Max(before)
    IN  SubSeq(sorted, 1, n) \o <<x>> \o SubSeq(sorted, n + 1, Len(sorted))

RECURSIVE SortedFrom(_, _, _)
SortedFrom(ps, k, acc) ==
    IF k > Len(ps) THEN acc
    ELSE Eval(InsertDesc(acc, ps[k]), LAMBDA acc2 : SortedFrom(ps, k + 1, acc2))

\* the sort without reverse=True: oldest first
SortNewestFirst_Ascending(ps) ==
    LET desc == SortedFrom(ps, 1, << >>)
    IN  [i \in 1..Len(desc) |-> desc[Len(desc) + 1 - i]]

\* sorted(ps, key=lambda p: p.fieldwork_end or date.min, reverse=True)
SortNewestFirst(ps) == SortedFrom(ps, 1, << >>)

\* ------------------------------------------------------------------------
\* Table locator and header detector (scraper.py, scrape_polls)
\* ------------------------------------------------------------------------
RECURSIVE ConcatCells(_, _)
ConcatCells(cells, k) ==
    IF k > Len(cells) THEN << >> ELSE cells[k].text \o ConcatCells(cells, k + 1)

RECURSIVE ConcatRows(_, _)
\* table.get_text(strip=True).lower()
ConcatRows(table, r) ==
    IF r > Len(table) THEN << >>
    ELSE Lower(ConcatCells(table[r], 1)) \o ConcatRows(table, r + 1)

\* line 228
HasAllParties(table) ==
    LET text == ConcatRows(table, 1)
    IN  /\ Contains(text, <<"c", "o", "n">>)
        /\ Contains(text, <<"l", "a", "b">>)
        /\ Contains(text, <<"r", "e", "f", "o", "r", "m">>)
        /\ Contains(text, <<"g", "r", "e", "e", "n">>)

\* lines 224-230: the index of the target table, 0 when there is none
TargetTable(tables) ==
    LET hits == {t \in 1..Len(tables) : HasAllParties(tables[t])}
    IN  IF hits = {} THEN 0 ELSE Min(hits)

\* lines 246-250
IsHeaderRow(row) ==
    Eval(_identify_columns(row),
         LAMBDA candidate_map :
            Cardinality({candidate_map[k].field : k \in 1..Len(candidate_map)}
                        \cap {"con", "lab", "lib_dem", "reform", "green"}) >= 3)

\* the scan of line 244 taken over every row of the grid
HeaderRowIdx_AllRows(g) ==
    LET hits == {i \in 1..Len(g) : IsHeaderRow(g[i])}
    IN  IF hits = {} THEN 0 ELSE Min(hits)

\* lines 242-253: the header row (the code's index plus one), 0 when none
HeaderRowIdx(g) ==
    LET hits == {i \in 1..Min({4, Len(g)}) : IsHeaderRow(g[i])}
    IN  IF hits = {} THEN 0 ELSE Min(hits)

\* ------------------------------------------------------------------------
\* PollingStore (store.py) and refresh_polling_data (app.py): the values
\* ------------------------------------------------------------------------
PARTY_FIELDS == <<"con", "lab", "lib_dem", "reform", "green", "snp", "other">>

\* load with the new polls added to the stored ones, not put in their place
LoadedPolls_Merge(old_polls, new_polls) == SortNewestFirst(old_polls \o new_polls)

\* store.py lines 42-46: the list load() stores; the polls held before
\* take no part in it
LoadedPolls(old_polls, new_polls) == SortNewestFirst(new_polls)

\* the slice with the bound taken as an index: self._polls[:n - 1]
SliceTo_OneShort(ps, n) == SubSeq(ps, 1, Min({Max({n - 1, 0}), Len(ps)}))

\* store.py line 58: self._polls[:n]
SliceTo(ps, n) ==
    IF n >= 0 THEN SubSeq(ps, 1, Min({n, Len(ps)}))
    ELSE SubSeq(ps, 1, Max({0, Len(ps) + n}))

\* store.py lines 163-166: the present end dates, in list order
StatusDates(ps) ==
    LET present == SelectSeq(ps, LAMBDA p : ~IsNone(p.fieldwork_end))
    IN  [i \in 1..Len(present) |-> Get(present[i].fieldwork_end)]

\* store.py lines 167-173
StatusOf(ps, dates, last_refreshed, source) ==
    LET ds == {dates[i] : i \in 1..Len(dates)}
    IN  [total_polls      |-> Len(ps),
         latest_poll_date |-> IF ds # {} THEN Some(Max(ds)) ELSE None,
         oldest_poll_date |-> IF ds # {} THEN Some(Min(ds)) ELSE None,
         last_refreshed   |-> last_refreshed,
         source           |-> source]

\* threading.Lock taken by no thread: it is handed out to whoever asks
LockFree_Always(holder) == TRUE

\* threading.Lock: "with self._lock" goes on only when no thread holds it
LockFree(holder) == holder = 0

\* app.py line 42 without the test: the fallback loads the seed data
\* whatever the store holds
StoreIsEmpty_Always(status) == TRUE

\* app.py line 42
StoreIsEmpty(status) == status.total_polls = 0

\* tests/test_store.py _make_poll: a complete record of the given pollster
\* and end date
_make_poll(pollster, fieldwork_end) ==
    [pollster        |-> pollster,
     client          |-> Some(<<"T", "e", "s", "t", "C", "l", "i", "e", "n", "t">>),
     fieldwork_start |-> Some(20260101),
     fieldwork_end   |-> fieldwork_end,
     sample_size     |-> Some(1000),
     con             |-> Some(2000),
     lab             |-> Some(2200),
     lib_dem         |-> Some(1100),
     reform          |-> Some(2800),
     green           |-> Some(1200),
     snp             |-> Some(300),
     other           |-> Some(400),
     lead_party      |-> Some("Reform UK"),
     lead_pct        |-> Some(600),
     source_url      |-> None]

\* store.py lines 15-23, each key both as the text compared with the
\* argument and as the field of a record
PARTY_DISPLAY_NAMES ==
    << [key |-> <<"c", "o", "n">>, field |-> "con", name |-> <<"C", "o", "n", "s", "e", "r", "v", "a", "t", "i", "v", "e">>],
       [key |-> <<"l", "a", "b">>, field |-> "lab", name |-> <<"L", "a", "b", "o", "u", "r">>],
       [key |-> <<"l", "i", "b", "_", "d", "e", "m">>, field |-> "lib_dem", name |-> <<"L", "i", "b", "e", "r", "a", "l", " ", "D", "e", "m", "o", "c", "r", "a", "t", "s">>],
       [key |-> <<"r", "e", "f", "o", "r", "m">>, field |-> "reform", name |-> <<"R", "e", "f", "o", "r", "m", " ", "U", "K">>],
       [key |-> <<"g", "r", "e", "e", "n">>, field |-> "green", name |-> <<"G", "r", "e", "e", "n">>],
       [key |-> <<"s", "n", "p">>, field |-> "snp", name |-> <<"S", "N", "P">>],
       [key |-> <<"o", "t", "h", "e", "r">>, field |-> "other", name |-> <<"O", "t", "h", "e", "r">>] >>

\* str.replace(" ", "_")
ReplaceSpaces(s) == [i \in 1..Len(s) |-> IF s[i] = " " THEN "_" ELSE s[i]]

\* store.py lines 69-77: the field the name resolves to, "" when line 76
\* finds it is none of PARTY_FIELDS
ResolveParty(party) ==
    LET normalized == Strip(Lower(party))
        reverse    == {i \in 1..Len(PARTY_DISPLAY_NAMES) :
                          Lower(PARTY_DISPLAY_NAMES[i].name) = normalized}
        fields     == {i \in 1..Len(PARTY_DISPLAY_NAMES) :
                          PARTY_DISPLAY_NAMES[i].key = ReplaceSpaces(normalized)}
    IN  IF reverse # {} THEN PARTY_DISPLAY_NAMES[Max(reverse)].field
        ELSE IF fields # {} THEN PARTY_DISPLAY_NAMES[Max(fields)].field
        ELSE ""

RECURSIVE PartyPoints(_, _, _)
\* store.py lines 80-88: one dict per poll with a value for the field
PartyPoints(ps, field, k) ==
    IF k > Len(ps) THEN << >>
    ELSE (IF IsNone(ps[k][field]) THEN << >>
          ELSE <<[date     |-> IF IsNone(ps[k].fieldwork_end) THEN ps[k].fieldwork_start
                               ELSE ps[k].fieldwork_end,
                  value    |-> Get(ps[k][field]),
                  pollster |-> ps[k].pollster]>>)
         \o PartyPoints(ps, field, k + 1)

\* store.py lines 67-89
get_by_party(ps, party) ==
    Eval(ResolveParty(party),
         LAMBDA field : IF field = "" THEN << >> ELSE PartyPoints(ps, field, 1))

\* store.py lines 62-65: the polls whose pollster holds the argument, case
\* aside
get_by_pollster(ps, pollster) ==
    SelectSeq(ps, LAMBDA p : Contains(Lower(p.pollster), Lower(pollster)))

\* store.py lines 95-99: a date is always true, None never
get_date_range(ps, start, end) ==
    SelectSeq(ps, LAMBDA p : /\ ~IsNone(p.fieldwork_end)
                             /\ start <= Get(p.fieldwork_end)
                             /\ Get(p.fieldwork_end) <= end)

RECURSIVE SumOf(_)
\* the sum mean() divides
SumOf(values) ==
    IF values = << >> THEN 0 ELSE values[1] + SumOf(Tail(values))

\* store.py line 116: round(mean(values), 1) of values in hundredths.  A
\* mean that ends in exactly 5 hundredths goes the way the binary value of
\* the float falls; it is taken here to the even tenth.
RoundMean1(values) ==
    LET d  == 10 * Len(values)
        q  == SumOf(values) \div d
        r2 == 2 * (SumOf(values) % d)
    IN  IF r2 < d THEN 10 * q
        ELSE IF r2 > d THEN 10 * (q + 1)
        ELSE IF q % 2 = 0 THEN 10 * q ELSE 10 * (q + 1)

\* store.py lines 109-117: the averages dict, in the order of PARTY_FIELDS
SummaryAverages(recent) ==
    [i \in 1..Len(PARTY_FIELDS) |->
        LET field   == PARTY_FIELDS[i]
            present == SelectSeq(recent, LAMBDA p : ~IsNone(p[field]))
            values  == [k \in 1..Len(present) |-> Get(present[k][field])]
        IN  [name |-> PARTY_DISPLAY_NAMES[i].name,
             avg  |-> IF values # << >> THEN Some(RoundMean1(values)) ELSE None]]

\* store.py line 122: the key max() compares
AverageKey(a) == IF IsNone(a.avg) THEN -100 ELSE Get(a.avg)

\* store.py lines 104-144, the lock released after line 104
get_summary(ps, n, today) ==
    LET recent == SliceTo(ps, n)
    IN  IF recent = << >> THEN None
        ELSE
        LET averages   == SummaryAverages(recent)
            top        == Max({AverageKey(averages[i]) : i \in 1..Len(averages)})
            leader     == Min({i \in 1..Len(averages) : AverageKey(averages[i]) = top})
            leader_val == IF IsNone(averages[leader].avg) THEN 0
                          ELSE Get(averages[leader].avg)
            others     == {Get(averages[i].avg) :
                              i \in {j \in 1..Len(averages) :
                                        j # leader /\ ~IsNone(averages[j].avg)}}
            second_val == IF others = {} THEN 0 ELSE Max(others)
            dates      == {Get(recent[i].fieldwork_end) :
                              i \in {j \in 1..Len(recent) : ~IsNone(recent[j].fieldwork_end)}}
        IN  Some([period_start |-> IF dates # {} THEN Min(dates) ELSE today,
                  period_end   |-> IF dates # {} THEN Max(dates) ELSE today,
                  poll_count   |-> Len(recent),
                  averages     |-> averages,
                  leader       |-> averages[leader].name,
                  lead_margin  |-> Round1(leader_val - second_val)])

\* two digits of a number under 100, as str(date) writes month and day
TwoDigits(k) == <<Digits[(k \div 10) + 1], Digits[(k % 10) + 1]>>

\* store.py line 155: str(dp["date"]) of a date of four-digit year, or of None
DateStr(d) ==
    IF IsNone(d) THEN <<"N", "o", "n", "e">>
    ELSE LET y == Get(d) \div 10000
         IN  TwoDigits(y \div 100) \o TwoDigits(y % 100) \o <<"-">>
             \o TwoDigits((Get(d) \div 100) % 100) \o <<"-">> \o TwoDigits(Get(d) % 100)

\* store.py lines 152-158: the trend of the party PARTY_FIELDS[i]
PartyTrendOf(i, data_points) ==
    [party       |-> PARTY_DISPLAY_NAMES[i].name,
     data_points |-> [k \in 1..Len(data_points) |->
                         [date  |-> DateStr(data_points[k].date),
                          value |-> data_points[k].value]]]

RECURSIVE TrendsFrom(_, _)
\* store.py lines 148-159: get_by_party for each field in turn, the trend
\* appended when there are data points
TrendsFrom(ps, i) ==
    IF i > Len(PARTY_FIELDS) THEN << >>
    ELSE LET data_points == get_by_party(ps, PARTY_DISPLAY_NAMES[i].key)
         IN  (IF data_points # << >> THEN <<PartyTrendOf(i, data_points)>> ELSE << >>)
             \o TrendsFrom(ps, i + 1)

\* store.py lines 146-159
get_trends(ps) == TrendsFrom(ps, 1)

\* seed_data.SEED_POLLS: the static fallback dataset, a non-empty list
SEED_POLLS ==
    <<_make_poll(<<"S", "e", "e", "d", "A">>, Some(20250110)),
      _make_poll(<<"S", "e", "e", "d", "B">>, Some(20250120))>>

\* ------------------------------------------------------------------------
\* State
\* ------------------------------------------------------------------------
VARIABLES
    tables,          \* scrape_polls: the wikitables of the fetched page
    today_year,      \* date.today().year
    pc,              \* scrape_polls: the position in the function
    grid,            \* scrape_polls: the expanded grid of the target table
    header_row_idx,  \* scrape_polls: the header row (the code's index plus one)
    col_map,         \* scrape_polls: the column map of the header row
    row_idx,         \* scrape_polls: the row the loop of line 266 is at
    polls,           \* scrape_polls: the records appended so far
    emitted_rows,    \* history: the grid row each record of polls came from
    result,          \* scrape_polls: the list returned
    exc,             \* scrape_polls: the exception raised, "none" when none
    store_polls,           \* PollingStore._polls
    store_last_refreshed,  \* PollingStore._last_refreshed
    store_source,          \* PollingStore._source
    lock,                  \* PollingStore._lock: the thread holding it, 0 when free
    clock,                 \* the number of datetime.utcnow() calls made
    threads,               \* the threads calling into the store
    calls_left,            \* per thread, the calls it may still make
    tpc,                   \* per thread, the statement it is at
    tcall,                 \* per thread, the call it is in (or was last in)
    tlocal,                \* per thread, the arguments and locals of that call
    tret,                  \* per thread, what its last call returned
    tpre,                  \* history: per thread, the store as its refresh began
                           \* or as its load took the lock
    last_locker,           \* history: the polls and source of the load that
                           \* took the lock last
    callers,               \* "one" caller at a time, or "many" at once
    prev_run,              \* history: the scrape_polls run before this one
    fn,                    \* the function evaluated on its own, "none" when none
    fn_arg,                \* its argument
    fn_ret,                \* what it returned, None before it has
    fn_local,              \* its locals while it runs, << >> when it has none
    caller_lists           \* the list objects that queries have handed to
                           \* callers, by identity; << >> when none

scrape_vars == <<tables, today_year, pc, grid, header_row_idx, col_map, row_idx,
                 polls, emitted_rows, result, exc>>

store_vars == <<store_polls, store_last_refreshed, store_source, lock, clock, threads,
                calls_left, tpc, tcall, tlocal, tret, tpre, last_locker, callers>>

aux_vars == <<prev_run, fn, fn_arg, fn_ret, fn_local, caller_lists>>

vars == <<scrape_vars, store_vars, aux_vars>>

\* ------------------------------------------------------------------------
\* Pages the scrape is run on
\* ------------------------------------------------------------------------
MaxDataRows == 3

Cell(t) == [text |-> t, rowspan |-> None, colspan |-> None]

PlainRow(texts) == [j \in 1..Len(texts) |-> Cell(texts[j])]

\* the header row, parties in the order Con, Lab
HeaderTexts ==
    << <<"D", "a", "t", "e">>,
       <<"P", "o", "l", "l", "s", "t", "e", "r">>,
       <<"S", "a", "m", "p", "l", "e">>,
       <<"C", "o", "n">>,
       <<"L", "a", "b">>,
       <<"R", "e", "f", "o", "r", "m">>,
       <<"G", "r", "e", "e", "n">>,
       <<"L", "e", "a", "d">> >>

\* the same header with the Lab column left of the Con column
HeaderTextsLabFirst ==
    << <<"D", "a", "t", "e">>,
       <<"P", "o", "l", "l", "s", "t", "e", "r">>,
       <<"S", "a", "m", "p", "l", "e">>,
       <<"L", "a", "b">>,
       <<"C", "o", "n">>,
       <<"R", "e", "f", "o", "r", "m">>,
       <<"G", "r", "e", "e", "n">>,
       <<"L", "e", "a", "d">> >>

\* a complete row
RowFull ==
    << <<"1", "-", "3", " ", "F", "e", "b", " ", "2", "0", "2", "6">>,
       <<"Y", "G">>,
       <<"2", ",", "0", "8", "9">>,
       <<"2", "6">>,
       <<"1", "9", ".", "3">>,
       <<"2", "8">>,
       <<"1", "2">>,
       <<"2">> >>

\* the two leftmost party columns tie for the maximum; the sample size is too short
RowTie ==
    << <<"4", " ", "F", "e", "b", " ", "2", "0", "2", "6">>,
       <<"O", "p">>,
       <<"1", "2">>,
       <<"2", "6">>,
       <<"2", "6">>,
       <<"1", "9", ".", "3", "7">>,
       <<"N", "/", "A">>,
       <<"0">> >>

\* unparseable fieldwork text, two party values 0.07 apart
RowNoDate ==
    << <<"T", "B", "C">>,
       <<"Y", "G">>,
       << >>,
       <<"1", "9", ".", "3", "7">>,
       <<"1", "9", ".", "3">>,
       << >>,
       << >>,
       << >> >>

\* two non-empty cells only: a pollster and one party value
RowSparse ==
    << << >>,
       <<"Y", "G">>,
       << >>,
       <<"3", "0">>,
       << >>,
       << >>,
       << >>,
       << >> >>

\* no pollster text
RowNoPollster ==
    << <<"4", " ", "F", "e", "b", " ", "2", "0", "2", "6">>,
       << >>,
       <<"1", "0", "0", "0">>,
       <<"2", "6">>,
       <<"1", "9", ".", "3">>,
       <<"2", "8">>,
       <<"1", "2">>,
       <<"2">> >>

\* no party cell parses
RowNoParty ==
    << <<"3", " ", "F", "e", "b">>,
       <<"Y", "G">>,
       <<"2", "0", "8", "9">>,
       <<"EM_DASH">>,
       << >>,
       <<"N", "/", "A">>,
       <<"x">>,
       <<"5">> >>

\* one party value only; the fieldwork text names no year
RowSingle ==
    << <<"2", "8", " ", "J", "a", "n", " ", "EN_DASH", " ", "1", " ", "F", "e", "b">>,
       <<"O", "p">>,
       <<"5", "0", "0">>,
       << >>,
       <<"3", "0">>,
       << >>,
       << >>,
       << >> >>


Headers == {HeaderTexts, HeaderTextsLabFirst}

RowPool == {RowFull, RowTie, RowNoDate, RowSparse, RowNoPollster, RowNoParty, RowSingle}

DataRowSeqs(max) == UNION {[1..n -> RowPool] : n \in 0..max}

TableOf(h, rs) == <<PlainRow(h)>> \o [i \in 1..Len(rs) |-> PlainRow(rs[i])]

\* a header row and up to MaxDataRows data rows, no spans (one row fewer
\* under the header with the Lab column first)
PlainTables ==
    {TableOf(HeaderTexts, rs) : rs \in DataRowSeqs(MaxDataRows)}
    \cup {TableOf(HeaderTextsLabFirst, rs) : rs \in DataRowSeqs(MaxDataRows - 1)}

\* rowspan and colspan attribute values as they may stand in the markup
SpanPool ==
    {None, Some(<<"2">>), Some(<<"0">>), Some(<<"-", "1">>), Some(<<"-", "9">>),
     Some(<<"a", "b", "c">>), Some(<< >>)}

\* the first data row's fieldwork cell carries a colspan and its pollster
\* cell a rowspan; the rows below are written with all their cells, so a
\* span makes them ragged
SpanTables ==
    {<<PlainRow(HeaderTexts),
       [PlainRow(RowFull) EXCEPT ![1].colspan = cspan, ![2].rowspan = rspan],
       PlainRow(RowTie),
       PlainRow(RowSingle)>> : cspan \in SpanPool, rspan \in SpanPool}

TitleRow == <<[text |-> <<"P", "o", "l", "l", "s">>, rowspan |-> None, colspan |-> Some(<<"8">>)]>>

\* a title row spanning the table above the header row
TitledTables ==
    {<<TitleRow, PlainRow(h), PlainRow(RowFull), PlainRow(RowSparse), PlainRow(RowTie)>> :
        h \in Headers}

\* a wikitable that is not the polling table
OtherTable == <<PlainRow(<<<<"a">>, <<"b">>>>), PlainRow(<<<<"c">>, <<"d">>>>)>>

\* names every party, but no row has three party columns
NoHeaderTable ==
    <<PlainRow(<<<<"C", "o", "n">>, <<"L", "a", "b">>,
                 <<"R", "e", "f", "o", "r", "m", " ", "G", "r", "e", "e", "n">>>>),
      PlainRow(<<<<"2", "6">>, <<"1", "9">>, <<"2", "8">>>>),
      PlainRow(<<<<"2", "5">>, <<"2", "0">>, <<"2", "7">>>>)>>

\* a header whose only party columns besides Con and Lab are SNP and Other
HeaderTextsFewParties ==
    << <<"D", "a", "t", "e">>,
       <<"P", "o", "l", "l", "s", "t", "e", "r">>,
       <<"S", "a", "m", "p", "l", "e">>,
       <<"C", "o", "n">>,
       <<"L", "a", "b">>,
       <<"S", "N", "P">>,
       <<"O", "t", "h", "e", "r">>,
       <<"L", "e", "a", "d">> >>

\* a title row that names every party the locator looks for
PartyTitleRow ==
    <<[text |-> <<"C", "o", "n", " ", "L", "a", "b", " ", "R", "e", "f", "o", "r", "m", " ", "G", "r", "e", "e", "n">>, rowspan |-> None, colspan |-> Some(<<"8">>)]>>

\* the header row under 2, 3 and 4 title rows; a header row with too few
\* of the parties that count; two rows that both qualify as the header
HeaderTables ==
    {[i \in 1..k |-> TitleRow] \o TableOf(HeaderTexts, <<RowFull, RowTie>>) : k \in 2..4}
    \cup {<<PartyTitleRow>> \o TableOf(HeaderTextsFewParties, <<RowFull, RowTie>>),
          <<PlainRow(HeaderTextsLabFirst)>> \o TableOf(HeaderTexts, <<RowTie>>)}

Pages ==
    {<<t>> : t \in PlainTables \cup SpanTables \cup TitledTables \cup HeaderTables}
    \cup {<< >>, <<OtherTable>>, <<NoHeaderTable>>,
          <<OtherTable, <<PlainRow(HeaderTexts), PlainRow(RowFull), PlainRow(RowTie)>>>>}

TodayYears == {2026, 2027}

\* ------------------------------------------------------------------------
\* scrape_polls, step by step
\* ------------------------------------------------------------------------
\* the store as PollingStore.__init__ leaves it (store.py lines 29-33)
StoreConstructed ==
    /\ store_polls = << >>
    /\ store_last_refreshed = None
    /\ store_source = "none"
    /\ lock = 0
    /\ clock = 0

\* no earlier run, and no function evaluated on its own
AuxUnused ==
    /\ prev_run = None
    /\ caller_lists = << >>
    /\ fn = "none"
    /\ fn_arg = << >>
    /\ fn_ret = None
    /\ fn_local = << >>

\* no thread calls into the store
StoreUnused ==
    /\ StoreConstructed
    /\ threads = {}
    /\ calls_left = << >>
    /\ tpc = << >>
    /\ tcall = << >>
    /\ tlocal = << >>
    /\ tret = << >>
    /\ tpre = << >>
    /\ last_locker = None
    /\ callers = "none"

InitScrape ==
    /\ tables \in Pages
    /\ today_year \in TodayYears
    /\ pc = "fetch"
    /\ grid = << >>
    /\ header_row_idx = 0
    /\ col_map = << >>
    /\ row_idx = 0
    /\ polls = << >>
    /\ emitted_rows = << >>
    /\ result = << >>
    /\ exc = "none"
    /\ StoreUnused
    /\ AuxUnused

\* return [] of lines 221, 234, 239 and 257
ReturnEmpty ==
    /\ pc' = "returned"
    /\ result' = << >>

\* lines 214-215: the GET succeeds, or requests raises
Fetch ==
    /\ pc = "fetch"
    /\ \/ /\ pc' = "locate"
          /\ exc' = exc
       \/ /\ pc' = "raised"
          /\ exc' = "HTTPError"
    /\ UNCHANGED <<tables, today_year, grid, header_row_idx, col_map, row_idx,
                   polls, emitted_rows, result>>
    /\ UNCHANGED store_vars
    /\ UNCHANGED aux_vars

\* lines 217-239: locate the table and expand it
ExpandTable ==
    /\ pc = "locate"
    /\ \E t \in {TargetTable(tables)} :
          \/ /\ t = 0
             /\ ReturnEmpty
             /\ UNCHANGED <<grid, exc>>
          \/ /\ t # 0
             /\ \E g \in {_expand_rowspans(tables[t])} :
                   \/ /\ g.exc # "none"
                      /\ pc' = "raised"
                      /\ exc' = g.exc
                      /\ UNCHANGED <<grid, result>>
                   \/ /\ g.exc = "none"
                      /\ Len(g.grid) < 3
                      /\ ReturnEmpty
                      /\ UNCHANGED <<grid, exc>>
                   \/ /\ g.exc = "none"
                      /\ Len(g.grid) >= 3
                      /\ pc' = "header"
                      /\ grid' = g.grid
                      /\ UNCHANGED <<result, exc>>
    /\ UNCHANGED <<tables, today_year, header_row_idx, col_map, row_idx, polls, emitted_rows>>
    /\ UNCHANGED store_vars
    /\ UNCHANGED aux_vars

\* lines 241-257: find the header row
FindHeader ==
    /\ pc = "header"
    /\ \E h \in {HeaderRowIdx(grid)} :
          \/ /\ h = 0
             /\ ReturnEmpty
             /\ UNCHANGED <<header_row_idx, col_map, row_idx>>
          \/ /\ h # 0
             /\ pc' = "rows"
             /\ header_row_idx' = h
             /\ col_map' = _identify_columns(grid[h])
             /\ row_idx' = h + 1
             /\ UNCHANGED result
    /\ UNCHANGED <<tables, today_year, grid, polls, emitted_rows, exc>>
    /\ UNCHANGED store_vars
    /\ UNCHANGED aux_vars

\* lines 266-346: one pass of the loop over the rows below the header
MapRow ==
    /\ pc = "rows"
    /\ row_idx <= Len(grid)
    /\ \E row \in {grid[row_idx]} :
          \/ /\ NonEmptyCount(row) < 3
             /\ UNCHANGED <<polls, emitted_rows>>
          \/ /\ NonEmptyCount(row) >= 3
             /\ \E party_values \in {BuildPartyValues(row, col_map, 1, << >>)} :
                   \/ /\ ~RowKept(RowPollster(row, col_map), party_values)
                      /\ UNCHANGED <<polls, emitted_rows>>
                   \/ /\ RowKept(RowPollster(row, col_map), party_values)
                      /\ polls' = Append(polls, PollOf(row, col_map, today_year, WIKI_URL,
                                                       party_values))
                      /\ emitted_rows' = Append(emitted_rows, row_idx)
    /\ row_idx' = row_idx + 1
    /\ UNCHANGED <<tables, today_year, pc, grid, header_row_idx, col_map, result, exc>>
    /\ UNCHANGED store_vars
    /\ UNCHANGED aux_vars

\* lines 350-355: sort and return
SortAndReturn ==
    /\ pc = "rows"
    /\ row_idx > Len(grid)
    /\ pc' = "returned"
    /\ result' = SortNewestFirst(polls)
    /\ UNCHANGED <<tables, today_year, grid, header_row_idx, col_map, row_idx,
                   polls, emitted_rows, exc>>
    /\ UNCHANGED store_vars
    /\ UNCHANGED aux_vars

NextScrape == Fetch \/ ExpandTable \/ FindHeader \/ MapRow \/ SortAndReturn

SpecScrape == InitScrape /\ [][NextScrape]_vars

\* ------------------------------------------------------------------------
\* scrape_polls run twice: the page may have changed between the runs in
\* the cells under its lead header, and the year may have turned
\* ------------------------------------------------------------------------
\* a fieldwork text with a year and no date, another pollster than RowNoDate's
RowUndated ==
    << <<"s", "o", "o", "n", " ", "2", "0", "2", "6">>,
       <<"O", "p">>,
       <<"1", "0", "0", "0">>,
       << >>,
       <<"3", "0">>,
       <<"2", "5">>,
       << >>,
       <<"5">> >>

TwiceRows == {RowFull, RowNoDate, RowSparse, RowSingle, RowUndated}

\* a header that names no Green column: the word can only come from a cell
NarrowHeader ==
    << <<"P", "o", "l", "l", "s", "t", "e", "r">>,
       <<"C", "o", "n">>,
       <<"L", "a", "b">>,
       <<"R", "e", "f", "o", "r", "m">>,
       <<"L", "e", "a", "d">> >>

NarrowRow == << <<"Y", "G">>, <<"2", "6">>, <<"1", "9", ".", "3">>, <<"2", "8">>, << >> >>

NarrowTable == TableOf(NarrowHeader, <<NarrowRow, NarrowRow>>)

TwicePages ==
    {<<TableOf(HeaderTexts, rs)>> :
        rs \in UNION {[1..n -> TwiceRows] : n \in 1..(MaxDataRows - 1)}}
    \cup {<<NarrowTable>>}

\* texts a lead cell may hold
LeadTexts == {<< >>, <<"5">>, <<"G", "r", "e", "e", "n">>}

\* the table with the cell under each lead header of row r holding texts[r];
\* the first row is the header row
WithLeadTexts(table, texts) ==
    [r \in 1..Len(table) |->
        IF r = 1 THEN table[r]
        ELSE [c \in 1..Len(table[r]) |->
                 IF HeaderField(table[1][c].text) = "lead"
                 THEN [table[r][c] EXCEPT !.text = texts[r]]
                 ELSE table[r][c]]]

\* the pages that differ from a one-table page in its lead cells at most
LeadVariants(tabs) ==
    {<<WithLeadTexts(tabs[1], texts)>> : texts \in [2..Len(tabs[1]) -> LeadTexts]}

InitTwice ==
    /\ tables \in TwicePages
    /\ today_year \in TodayYears
    /\ pc = "fetch"
    /\ grid = << >>
    /\ header_row_idx = 0
    /\ col_map = << >>
    /\ row_idx = 0
    /\ polls = << >>
    /\ emitted_rows = << >>
    /\ result = << >>
    /\ exc = "none"
    /\ StoreUnused
    /\ AuxUnused

\* scrape_polls is called again (app.py line 33, on every refresh): the
\* first run's page, year and returned list are kept for comparison
Rerun ==
    /\ pc = "returned"
    /\ prev_run = None
    /\ prev_run' = Some([tables |-> tables, today_year |-> today_year, result |-> result])
    /\ tables' \in {tables} \cup LeadVariants(tables)
    /\ today_year' \in {y \in TodayYears : y >= today_year}
    /\ pc' = "fetch"
    /\ grid' = << >>
    /\ header_row_idx' = 0
    /\ col_map' = << >>
    /\ row_idx' = 0
    /\ polls' = << >>
    /\ emitted_rows' = << >>
    /\ result' = << >>
    /\ exc' = "none"
    /\ UNCHANGED <<fn, fn_arg, fn_ret, fn_local, caller_lists>>
    /\ UNCHANGED store_vars

NextTwice == Fetch \/ ExpandTable \/ FindHeader \/ MapRow \/ SortAndReturn \/ Rerun

SpecTwice == InitTwice /\ [][NextTwice]_vars

\* ------------------------------------------------------------------------
\* The store and the refresh: calls and their arguments
\* ------------------------------------------------------------------------
\* the longest list handed to load()
MaxBatchLen == 2

\* the calls one thread makes, one after the other
MaxCalls == 2

\* the threads that call into the store at the same time
NumThreads == 3

PollA == _make_poll(<<"Y", "o", "u", "G", "o", "v">>, Some(20260204))
PollB == _make_poll(<<"O", "p", "i", "n", "i", "u", "m">>, Some(20260124))
PollC == _make_poll(<<"I", "p", "s", "o", "s">>, None)

StorePolls == {PollA, PollB, PollC}

\* the lists of at most max polls
Batches(max) == UNION {[1..n -> StorePolls] : n \in 0..max}

\* the lists a scrape comes with under concurrent callers
ConcBatches == {<<PollB>>, <<PollC, PollA>>}

\* the lists the scrape comes with
BatchPool == IF callers = "many" THEN ConcBatches ELSE Batches(MaxBatchLen)

\* the source names given to load() directly (store.py line 39: "unknown"
\* when none is given)
LoadSources == {"test", "unknown"}

\* the arguments of the direct calls of load(); concurrent callers come
\* with lists and sources that differ from one another
LoadPool ==
    IF callers = "many"
    THEN {[polls |-> <<PollB>>, source |-> "test"],
          [polls |-> <<PollC, PollA>>, source |-> "unknown"]}
    ELSE {[polls |-> b, source |-> src] : b \in Batches(MaxBatchLen), src \in LoadSources}

\* the arguments of get_latest(): n >= 1, as the endpoint admits it
\* (app.py: Query(ge=1))
LatestPool == IF callers = "many" THEN {1} ELSE 1..(MaxBatchLen + 1)

\* what scrape_polls() does inside the refresh: it raises, or returns a list
ScrapeOutcomes ==
    {[exc |-> e, polls |-> << >>] : e \in {"HTTPError", "ValueError", "IndexError"}}
       \cup {[exc |-> "none", polls |-> b] : b \in BatchPool \cup {<< >>}}

\* app.py line 38, "except Exception": the classes it catches
IsException(e) == e \in {"HTTPError", "ValueError", "IndexError"}

NoStatus == StatusOf(<< >>, << >>, None, "none")

NoLocals ==
    [polls |-> << >>, source |-> "none", dates |-> << >>, status |-> NoStatus,
     scraped |-> "none", fell_back |-> FALSE]

NoReturn == [kind |-> "none", count |-> 0, polls |-> << >>, status |-> NoStatus]

ReturnCount(k) == [NoReturn EXCEPT !.kind = "int", !.count = k]

ReturnPolls(ps) == [NoReturn EXCEPT !.kind = "list", !.polls = ps]

ReturnStatus(st) == [NoReturn EXCEPT !.kind = "status", !.status = st]

NoStore == [polls |-> << >>, source |-> "none", last_refreshed |-> None]

\* the store as a call sees it
StoreNow == [polls |-> store_polls, source |-> store_source, last_refreshed |-> store_last_refreshed]

\* the threads of the given set, each with the given number of calls to
\* make and none made yet, around a store just constructed
InitStore(ts, ncalls) ==
    /\ tables = << >>
    /\ today_year = 2026
    /\ pc = "returned"
    /\ grid = << >>
    /\ header_row_idx = 0
    /\ col_map = << >>
    /\ row_idx = 0
    /\ polls = << >>
    /\ emitted_rows = << >>
    /\ result = << >>
    /\ exc = "none"
    /\ AuxUnused
    /\ StoreConstructed
    /\ threads = ts
    /\ calls_left = [t \in ts |-> ncalls]
    /\ tpc = [t \in ts |-> "idle"]
    /\ tcall = [t \in ts |-> [name |-> "none", n |-> 0]]
    /\ tlocal = [t \in ts |-> NoLocals]
    /\ tret = [t \in ts |-> NoReturn]
    /\ tpre = [t \in ts |-> NoStore]
    /\ last_locker = None
    /\ callers = IF Cardinality(ts) > 1 THEN "many" ELSE "one"

\* a thread begins a call: name, argument n, and the statement it starts at
Begin(t, name, n, locals, at) ==
    /\ tpc[t] = "idle"
    /\ calls_left[t] > 0
    /\ calls_left' = [calls_left EXCEPT ![t] = @ - 1]
    /\ tcall' = [tcall EXCEPT ![t] = [name |-> name, n |-> n]]
    /\ tlocal' = [tlocal EXCEPT ![t] = locals]
    /\ tret' = [tret EXCEPT ![t] = NoReturn]
    /\ tpre' = [tpre EXCEPT ![t] = IF name = "refresh" THEN StoreNow ELSE NoStore]
    /\ tpc' = [tpc EXCEPT ![t] = at]
    /\ UNCHANGED <<store_polls, store_last_refreshed, store_source, lock, clock, threads,
                   last_locker, callers>>
    /\ UNCHANGED scrape_vars
    /\ UNCHANGED aux_vars

\* "with self._lock:" entered by thread t
Acquire(t) ==
    /\ LockFree(lock)
    /\ lock' = t

\* ------------------------------------------------------------------------
\* PollingStore.load (store.py lines 39-50)
\* ------------------------------------------------------------------------
CallLoad(t) ==
    \E l \in LoadPool :
       Begin(t, "load", 0, [NoLocals EXCEPT !.polls = l.polls, !.source = l.source], "load_enter")

\* line 41
LoadAcquire(t) ==
    /\ tpc[t] = "load_enter"
    /\ Acquire(t)
    /\ last_locker' = Some([polls |-> tlocal[t].polls, source |-> tlocal[t].source])
    /\ tpre' = [tpre EXCEPT ![t] = IF tcall[t].name = "load" THEN StoreNow ELSE @]
    /\ tpc' = [tpc EXCEPT ![t] = "load_polls"]
    /\ UNCHANGED <<store_polls, store_last_refreshed, store_source, clock, threads,
                   calls_left, tcall, tlocal, tret, callers>>
    /\ UNCHANGED scrape_vars
    /\ UNCHANGED aux_vars

\* lines 42-46
LoadSetPolls(t) ==
    /\ tpc[t] = "load_polls"
    /\ store_polls' = LoadedPolls(store_polls, tlocal[t].polls)
    /\ tpc' = [tpc EXCEPT ![t] = "load_refreshed"]
    /\ UNCHANGED <<store_last_refreshed, store_source, lock, clock, threads,
                   calls_left, tcall, tlocal, tret, tpre, last_locker, callers>>
    /\ UNCHANGED scrape_vars
    /\ UNCHANGED aux_vars

\* line 47
LoadSetRefreshed(t) ==
    /\ tpc[t] = "load_refreshed"
    /\ clock' = clock + 1
    /\ store_last_refreshed' = Some(clock + 1)
    /\ tpc' = [tpc EXCEPT ![t] = "load_source"]
    /\ UNCHANGED <<store_polls, store_source, lock, threads,
                   calls_left, tcall, tlocal, tret, tpre, last_locker, callers>>
    /\ UNCHANGED scrape_vars
    /\ UNCHANGED aux_vars

\* line 48
LoadSetSource(t) ==
    /\ tpc[t] = "load_source"
    /\ store_source' = tlocal[t].source
    /\ tpc' = [tpc EXCEPT ![t] = "load_return"]
    /\ UNCHANGED <<store_polls, store_last_refreshed, lock, clock, threads,
                   calls_left, tcall, tlocal, tret, tpre, last_locker, callers>>
    /\ UNCHANGED scrape_vars
    /\ UNCHANGED aux_vars

\* line 50 and the end of the with block; a load made by the refresh
\* returns through it (app.py lines 37 and 46)
LoadReturn(t) ==
    /\ tpc[t] = "load_return"
    /\ tret' = [tret EXCEPT ![t] = ReturnCount(Len(store_polls))]
    /\ lock' = 0
    /\ tpc' = [tpc EXCEPT ![t] = "idle"]
    /\ UNCHANGED <<store_polls, store_last_refreshed, store_source, clock, threads,
                   calls_left, tcall, tlocal, tpre, last_locker, callers>>
    /\ UNCHANGED scrape_vars
    /\ UNCHANGED aux_vars

\* ------------------------------------------------------------------------
\* PollingStore.get_all, get_latest, get_status (store.py lines 52-58, 161-173)
\* ------------------------------------------------------------------------
CallGetAll(t) == Begin(t, "get_all", 0, NoLocals, "all_enter")

\* line 53
GetAllAcquire(t) ==
    /\ tpc[t] = "all_enter"
    /\ Acquire(t)
    /\ tpc' = [tpc EXCEPT ![t] = "all_return"]
    /\ UNCHANGED <<store_polls, store_last_refreshed, store_source, clock, threads,
                   calls_left, tcall, tlocal, tret, tpre, last_locker, callers>>
    /\ UNCHANGED scrape_vars
    /\ UNCHANGED aux_vars

\* line 54
GetAllReturn(t) ==
    /\ tpc[t] = "all_return"
    /\ tret' = [tret EXCEPT ![t] = ReturnPolls(store_polls)]
    /\ lock' = 0
    /\ tpc' = [tpc EXCEPT ![t] = "idle"]
    /\ UNCHANGED <<store_polls, store_last_refreshed, store_source, clock, threads,
                   calls_left, tcall, tlocal, tpre, last_locker, callers>>
    /\ UNCHANGED scrape_vars
    /\ UNCHANGED aux_vars

CallGetLatest(t) ==
    \E n \in LatestPool : Begin(t, "get_latest", n, NoLocals, "latest_enter")

\* line 57
GetLatestAcquire(t) ==
    /\ tpc[t] = "latest_enter"
    /\ Acquire(t)
    /\ tpc' = [tpc EXCEPT ![t] = "latest_return"]
    /\ UNCHANGED <<store_polls, store_last_refreshed, store_source, clock, threads,
                   calls_left, tcall, tlocal, tret, tpre, last_locker, callers>>
    /\ UNCHANGED scrape_vars
    /\ UNCHANGED aux_vars

\* line 58
GetLatestReturn(t) ==
    /\ tpc[t] = "latest_return"
    /\ tret' = [tret EXCEPT ![t] = ReturnPolls(SliceTo(store_polls, tcall[t].n))]
    /\ lock' = 0
    /\ tpc' = [tpc EXCEPT ![t] = "idle"]
    /\ UNCHANGED <<store_polls, store_last_refreshed, store_source, clock, threads,
                   calls_left, tcall, tlocal, tpre, last_locker, callers>>
    /\ UNCHANGED scrape_vars
    /\ UNCHANGED aux_vars

CallGetStatus(t) == Begin(t, "get_status", 0, NoLocals, "status_enter")

\* line 162
GetStatusAcquire(t) ==
    /\ tpc[t] = "status_enter"
    /\ Acquire(t)
    /\ tpc' = [tpc EXCEPT ![t] = "status_dates"]
    /\ UNCHANGED <<store_polls, store_last_refreshed, store_source, clock, threads,
                   calls_left, tcall, tlocal, tret, tpre, last_locker, callers>>
    /\ UNCHANGED scrape_vars
    /\ UNCHANGED aux_vars

\* lines 163-166
GetStatusDates(t) ==
    /\ tpc[t] = "status_dates"
    /\ tlocal' = [tlocal EXCEPT ![t].dates = StatusDates(store_polls)]
    /\ tpc' = [tpc EXCEPT ![t] = "status_return"]
    /\ UNCHANGED <<store_polls, store_last_refreshed, store_source, lock, clock, threads,
                   calls_left, tcall, tret, tpre, last_locker, callers>>
    /\ UNCHANGED scrape_vars
    /\ UNCHANGED aux_vars

\* lines 167-173 and the end of the with block; under the refresh the
\* status goes to the test of app.py line 42
GetStatusReturn(t) ==
    /\ tpc[t] = "status_return"
    /\ \E st \in {StatusOf(store_polls, tlocal[t].dates, store_last_refreshed, store_source)} :
          IF tcall[t].name = "refresh"
          THEN /\ tlocal' = [tlocal EXCEPT ![t].status = st]
               /\ tpc' = [tpc EXCEPT ![t] = "refresh_check"]
               /\ tret' = tret
          ELSE /\ tret' = [tret EXCEPT ![t] = ReturnStatus(st)]
               /\ tpc' = [tpc EXCEPT ![t] = "idle"]
               /\ tlocal' = tlocal
    /\ lock' = 0
    /\ UNCHANGED <<store_polls, store_last_refreshed, store_source, clock, threads,
                   calls_left, tcall, tpre, last_locker, callers>>
    /\ UNCHANGED scrape_vars
    /\ UNCHANGED aux_vars

\* ------------------------------------------------------------------------
\* refresh_polling_data (app.py lines 30-47)
\* ------------------------------------------------------------------------
CallRefresh(t) == Begin(t, "refresh", 0, NoLocals, "refresh_scrape")

\* lines 32-39: the scrape raises (the handler logs and the refresh goes
\* on; an exception it does not catch leaves the refresh), returns nothing,
\* or returns polls that go to load()
RefreshScrape(t) ==
    /\ tpc[t] = "refresh_scrape"
    /\ \E o \in ScrapeOutcomes :
          IF o.exc # "none"
          THEN /\ tlocal' = [tlocal EXCEPT ![t].scraped = o.exc]
               /\ tpc' = [tpc EXCEPT ![t] = IF IsException(o.exc) THEN "status_enter"
                                                                 ELSE "refresh_raised"]
          ELSE IF o.polls # << >>
          THEN /\ tlocal' = [tlocal EXCEPT ![t].scraped = "polls", ![t].polls = o.polls,
                                           ![t].source = "wikipedia"]
               /\ tpc' = [tpc EXCEPT ![t] = "load_enter"]
          ELSE /\ tlocal' = [tlocal EXCEPT ![t].scraped = "empty"]
               /\ tpc' = [tpc EXCEPT ![t] = "status_enter"]
    /\ UNCHANGED <<store_polls, store_last_refreshed, store_source, lock, clock, threads,
                   calls_left, tcall, tret, tpre, last_locker, callers>>
    /\ UNCHANGED scrape_vars
    /\ UNCHANGED aux_vars

\* lines 42-47
RefreshCheck(t) ==
    /\ tpc[t] = "refresh_check"
    /\ IF StoreIsEmpty(tlocal[t].status)
       THEN /\ tlocal' = [tlocal EXCEPT ![t].polls = SEED_POLLS, ![t].source = "seed_data",
                                        ![t].fell_back = TRUE]
            /\ tpc' = [tpc EXCEPT ![t] = "load_enter"]
            /\ tret' = tret
       ELSE /\ tret' = [tret EXCEPT ![t] = ReturnCount(0)]
            /\ tpc' = [tpc EXCEPT ![t] = "idle"]
            /\ tlocal' = tlocal
    /\ UNCHANGED <<store_polls, store_last_refreshed, store_source, lock, clock, threads,
                   calls_left, tcall, tpre, last_locker, callers>>
    /\ UNCHANGED scrape_vars
    /\ UNCHANGED aux_vars

\* the calls of load() and of the readers
NextConc ==
    \/ \E t \in threads : CallLoad(t)
    \/ \E t \in threads : LoadAcquire(t)
    \/ \E t \in threads : LoadSetPolls(t)
    \/ \E t \in threads : LoadSetRefreshed(t)
    \/ \E t \in threads : LoadSetSource(t)
    \/ \E t \in threads : LoadReturn(t)
    \/ \E t \in threads : CallGetAll(t)
    \/ \E t \in threads : GetAllAcquire(t)
    \/ \E t \in threads : GetAllReturn(t)
    \/ \E t \in threads : CallGetLatest(t)
    \/ \E t \in threads : GetLatestAcquire(t)
    \/ \E t \in threads : GetLatestReturn(t)
    \/ \E t \in threads : CallGetStatus(t)
    \/ \E t \in threads : GetStatusAcquire(t)
    \/ \E t \in threads : GetStatusDates(t)
    \/ \E t \in threads : GetStatusReturn(t)

\* those, and the refresh
NextStore ==
    \/ NextConc
    \/ \E t \in threads : CallRefresh(t)
    \/ \E t \in threads : RefreshScrape(t)
    \/ \E t \in threads : RefreshCheck(t)

\* one thread making its calls one after the other
SpecStore == InitStore({1}, MaxCalls) /\ [][NextStore]_vars

\* several threads, one call each, all at the same time
SpecConc == InitStore(1..NumThreads, 1) /\ [][NextConc]_vars

\* ------------------------------------------------------------------------
\* get_by_party on a loaded store
\* ------------------------------------------------------------------------
\* the scraper is not running
ScrapeUnused ==
    /\ tables = << >>
    /\ today_year = 2026
    /\ pc = "returned"
    /\ grid = << >>
    /\ header_row_idx = 0
    /\ col_map = << >>
    /\ row_idx = 0
    /\ polls = << >>
    /\ emitted_rows = << >>
    /\ result = << >>
    /\ exc = "none"

\* the store is not called by any thread
ThreadsUnused ==
    /\ threads = {}
    /\ calls_left = << >>
    /\ tpc = << >>
    /\ tcall = << >>
    /\ tlocal = << >>
    /\ tret = << >>
    /\ tpre = << >>
    /\ last_locker = None
    /\ callers = "none"

\* a poll without a Green and an SNP value
PollNoGreen ==
    [_make_poll(<<"S", "u", "r", "v">>, Some(20260110)) EXCEPT !.green = None, !.snp = None]

\* the lists a store may hold when get_by_party is called: load() has left
\* them sorted
PartyStores ==
    {SortNewestFirst(b) :
        b \in UNION {[1..n -> {PollA, PollC, PollNoGreen}] : n \in 0..MaxBatchLen}}

\* the names get_by_party is called with
PartyNames ==
    {<<"c", "o", "n">>,
     <<"l", "a", "b">>,
     <<"l", "i", "b", "_", "d", "e", "m">>,
     <<"r", "e", "f", "o", "r", "m">>,
     <<"g", "r", "e", "e", "n">>,
     <<"s", "n", "p">>,
     <<"o", "t", "h", "e", "r">>,
     <<"l", "a", "b", "o", "u", "r">>,
     <<"c", "o", "n", "s", "e", "r", "v", "a", "t", "i", "v", "e">>,
     <<"l", "i", "b", "e", "r", "a", "l", " ", "d", "e", "m", "o", "c", "r", "a", "t", "s">>,
     <<"r", "e", "f", "o", "r", "m", " ", "u", "k">>,
     <<"g", "r", "e", "e", "n", "s">>,
     <<"L", "a", "b", "o", "u", "r">>,
     <<"G", "R", "E", "E", "N", "S">>,
     <<"R", "e", "f", "o", "r", "m", " ", "U", "K">>,
     <<" ", "L", "a", "b", " ">>,
     <<"L", "I", "B", "_", "D", "E", "M">>,
     <<"l", "i", "b", " ", "d", "e", "m">>,
     <<"G", "r", "e", "e", "n">>,
     <<"S", "N", "P">>,
     <<"p", "i", "r", "a", "t", "e">>,
     << >>,
     <<"l", "i", "b", "d", "e", "m">>,
     <<"C", "o", "n", " ", "s", "e", "r", "v", "a", "t", "i", "v", "e">>}

InitParty ==
    /\ ScrapeUnused
    /\ ThreadsUnused
    /\ store_polls \in PartyStores
    /\ store_last_refreshed = Some(1)
    /\ store_source = "test"
    /\ lock = 0
    /\ clock = 1
    /\ prev_run = None
    /\ caller_lists = << >>
    /\ fn = "get_by_party"
    /\ fn_arg \in PartyNames
    /\ fn_ret = None
    /\ fn_local = << >>

\* store.py lines 67-89: one call, the lock taken and released within it
GetByParty ==
    /\ fn = "get_by_party"
    /\ fn_ret = None
    /\ lock = 0
    /\ fn_ret' = Some(get_by_party(store_polls, fn_arg))
    /\ UNCHANGED <<caller_lists, prev_run, fn, fn_arg, fn_local>>
    /\ UNCHANGED scrape_vars
    /\ UNCHANGED store_vars

NextParty == GetByParty

SpecParty == InitParty /\ [][NextParty]_vars

\* ------------------------------------------------------------------------
\* _identify_columns on rows of header texts
\* ------------------------------------------------------------------------
MaxHeaderCells == 2

\* header texts as the cells of a grid row may hold them
HeaderPool ==
    {<<"C", "o", "n">>,
     <<" ", "L", "A", "B", " ">>,
     <<"L", "i", "b", " ", "D", "e", "m">>,
     <<"R", "e", "f", "o", "r", "m", " ", "U", "K">>,
     <<"D", "a", "t", "e">>,
     <<"P", "o", "l", "l", "i", "n", "g", " ", "o", "r", "g", "a", "n", "i", "s", "a", "t", "i", "o", "n", "/", "c", "l", "i", "e", "n", "t">>,
     <<"C", "l", "i", "e", "n", "t">>,
     <<"S", "a", "m", "p", "l", "e", " ", "s", "i", "z", "e">>,
     <<"L", "e", "a", "d">>,
     <<"A", "r", "e", "a">>,
     <<"L", "e", "a", "d", " ", "a", "r", "e", "a">>,
     <<"N", "o", "t", "e", "s">>,
     << >>,
     <<"C", "o", "n", "s", "e", "r", "v", "a", "t", "i", "v", "e", " ", "l", "e", "a", "d">>,
     <<"D", "a", "t", "e", "s", " ", "c", "o", "n", "d", "u", "c", "t", "e", "d">>,
     <<"O", "t", "h", "e", "r", "s">>}

\* the store and the scraper are not running; fn names the function applied
PureInit(name) ==
    /\ ScrapeUnused
    /\ StoreUnused
    /\ prev_run = None
    /\ caller_lists = << >>
    /\ fn = name
    /\ fn_ret = None

InitColumns ==
    /\ PureInit("_identify_columns")
    /\ fn_local = << >>
    /\ fn_arg \in UNION {[1..n -> HeaderPool] : n \in 0..MaxHeaderCells}

\* one call of _identify_columns
IdentifyColumns ==
    /\ fn = "_identify_columns"
    /\ fn_ret = None
    /\ fn_ret' = Some(_identify_columns(fn_arg))
    /\ UNCHANGED <<caller_lists, prev_run, fn, fn_arg, fn_local>>
    /\ UNCHANGED scrape_vars
    /\ UNCHANGED store_vars

NextColumns == IdentifyColumns

SpecColumns == InitColumns /\ [][NextColumns]_vars

\* ------------------------------------------------------------------------
\* _expand_rowspans, cell by cell
\* ------------------------------------------------------------------------
MaxGridRows == 3

\* a plain cell, then a cell two rows high
GridRowTall ==
    <<[text |-> <<"a">>, rowspan |-> None, colspan |-> None],
      [text |-> <<"b">>, rowspan |-> Some(<<"2">>), colspan |-> None]>>

\* one cell two columns wide
GridRowWide ==
    <<[text |-> <<"c">>, rowspan |-> None, colspan |-> Some(<<"2">>)]>>

\* two plain cells
GridRowPlain ==
    <<[text |-> <<"d">>, rowspan |-> None, colspan |-> None],
      [text |-> <<"e">>, rowspan |-> None, colspan |-> None]>>

\* one cell two rows high and two columns wide
GridRowBlock ==
    <<[text |-> <<"f">>, rowspan |-> Some(<<"2">>), colspan |-> Some(<<"2">>)]>>

\* one plain cell
GridRowOne ==
    <<[text |-> <<"g">>, rowspan |-> None, colspan |-> None]>>

\* a cell two rows high, then a plain cell
GridRowTallFirst ==
    <<[text |-> <<"h">>, rowspan |-> Some(<<"2">>), colspan |-> None],
      [text |-> <<"i">>, rowspan |-> None, colspan |-> None]>>

GridRowPool == {GridRowTall, GridRowWide, GridRowPlain, GridRowBlock, GridRowOne, GridRowTallFirst}

\* the tables of up to MaxGridRows rows
GridTables == UNION {[1..n -> GridRowPool] : n \in 0..MaxGridRows}

\* the locals of _expand_rowspans: the grid of line 178, the loop positions,
\* and as history the cell (row, cell index) that wrote each slot last and
\* the rectangle every placed cell was written to
GridLocals(phase, max_cols, n_rows) ==
    [phase    |-> phase,
     max_cols |-> max_cols,
     row_idx  |-> 1,
     cell_idx |-> 1,
     col_idx  |-> 0,
     grid     |-> [r \in 1..n_rows |-> [j \in 1..max_cols |-> None]],
     owner    |-> [r \in 1..n_rows |-> [j \in 1..max_cols |-> None]],
     placed   |-> << >>]

InitGrid ==
    /\ PureInit("_expand_rowspans")
    /\ fn_arg \in GridTables
    /\ fn_local = GridLocals("start", 0, 0)

\* lines 164-180: no rows, or the first pass and the empty grid
GridFirstPass ==
    /\ fn = "_expand_rowspans"
    /\ fn_local.phase = "start"
    /\ IF Len(fn_arg) = 0
       THEN /\ fn_ret' = Some(<< >>)
            /\ fn_local' = [fn_local EXCEPT !.phase = "returned"]
       ELSE \E w \in {GridWidth(fn_arg)} :
               IF w.exc # "none"
               THEN /\ fn_local' = [fn_local EXCEPT !.phase = w.exc]
                    /\ UNCHANGED fn_ret
               ELSE /\ fn_local' = GridLocals("place", w.max_cols, Len(fn_arg))
                    /\ UNCHANGED fn_ret
    /\ UNCHANGED <<caller_lists, prev_run, fn, fn_arg>>
    /\ UNCHANGED scrape_vars
    /\ UNCHANGED store_vars

\* lines 184-201: one pass of the loop over the cells of a row
GridPlaceCell ==
    /\ fn = "_expand_rowspans"
    /\ fn_local.phase = "place"
    /\ fn_local.row_idx <= Len(fn_arg)
    /\ fn_local.cell_idx <= Len(fn_arg[fn_local.row_idx])
    /\ \E cell \in {fn_arg[fn_local.row_idx][fn_local.cell_idx]} :
       \E st \in {PlaceCell(fn_local.grid, fn_local.row_idx, cell, fn_local.col_idx,
                            fn_local.max_cols)} :
          IF st.exc # "none"
          THEN fn_local' = [fn_local EXCEPT !.phase = st.exc]
          ELSE IF st.stop
          THEN fn_local' = [fn_local EXCEPT !.cell_idx = Len(fn_arg[fn_local.row_idx]) + 1]
          ELSE \E at \in {NextEmpty(fn_local.grid[fn_local.row_idx], fn_local.col_idx,
                                    fn_local.max_cols)} :
                  fn_local' =
                     [fn_local EXCEPT
                        !.grid = st.grid,
                        !.col_idx = st.col_idx,
                        !.cell_idx = fn_local.cell_idx + 1,
                        !.owner = FillRect(fn_local.owner, fn_local.row_idx, at,
                                           AttrInt(cell.rowspan).val, AttrInt(cell.colspan).val,
                                           fn_local.max_cols,
                                           <<fn_local.row_idx, fn_local.cell_idx>>),
                        !.placed = Append(fn_local.placed,
                                          [row |-> fn_local.row_idx, cell |-> fn_local.cell_idx,
                                           col |-> at + 1, text |-> cell.text,
                                           rowspan |-> AttrInt(cell.rowspan).val,
                                           colspan |-> AttrInt(cell.colspan).val])]
    /\ UNCHANGED <<caller_lists, prev_run, fn, fn_arg, fn_ret>>
    /\ UNCHANGED scrape_vars
    /\ UNCHANGED store_vars

\* line 182: the cells of the row are done (or line 189 has left the loop)
GridNextRow ==
    /\ fn = "_expand_rowspans"
    /\ fn_local.phase = "place"
    /\ fn_local.row_idx <= Len(fn_arg)
    /\ fn_local.cell_idx > Len(fn_arg[fn_local.row_idx])
    /\ fn_local' = [fn_local EXCEPT !.row_idx = fn_local.row_idx + 1,
                                    !.cell_idx = 1,
                                    !.col_idx = 0]
    /\ UNCHANGED <<caller_lists, prev_run, fn, fn_arg, fn_ret>>
    /\ UNCHANGED scrape_vars
    /\ UNCHANGED store_vars

\* line 204: the slots never written become empty strings
GridReturn ==
    /\ fn = "_expand_rowspans"
    /\ fn_local.phase = "place"
    /\ fn_local.row_idx > Len(fn_arg)
    /\ fn_ret' = Some([r \in 1..Len(fn_local.grid) |->
                         [j \in 1..Len(fn_local.grid[r]) |->
                             IF IsNone(fn_local.grid[r][j]) THEN << >>
                             ELSE Get(fn_local.grid[r][j])]])
    /\ fn_local' = [fn_local EXCEPT !.phase = "returned"]
    /\ UNCHANGED <<caller_lists, prev_run, fn, fn_arg>>
    /\ UNCHANGED scrape_vars
    /\ UNCHANGED store_vars

NextGrid == GridFirstPass \/ GridPlaceCell \/ GridNextRow \/ GridReturn

SpecGrid == InitGrid /\ [][NextGrid]_vars

\* ------------------------------------------------------------------------
\* _parse_fieldwork_dates on fieldwork texts
\* ------------------------------------------------------------------------
\* texts a fieldwork cell may hold
FieldworkTexts ==
    {<<"1", "-", "3", " ", "F", "e", "b", " ", "2", "0", "2", "6">>,
     <<"3", " ", "F", "e", "b", " ", "2", "0", "2", "6">>,
     <<"2", "8", " ", "J", "a", "n", " ", "EN_DASH", " ", "1", " ", "F", "e", "b", " ", "2", "0", "2", "6">>,
     <<"3", " ", "F", "e", "b">>,
     <<"2", "8", " ", "J", "a", "n", " ", "EN_DASH", " ", "1", " ", "F", "e", "b">>,
     << >>,
     <<"T", "B", "C">>,
     <<"1", " ", "F", "e", "b", " ", "EN_DASH", " ", "T", "B", "C">>,
     <<"T", "B", "C", " ", "EN_DASH", " ", "3", " ", "F", "e", "b", " ", "2", "0", "2", "6">>,
     <<"D", "e", "c", " ", "2", "8", " ", "EN_DASH", " ", "3", " ", "J", "a", "n", " ", "2", "0", "2", "6">>,
     <<"2", "8", " ", "F", "o", "o", " ", "EN_DASH", " ", "3", " ", "J", "a", "n", " ", "2", "0", "2", "6">>,
     <<"1", " ", "F", "e", "b", " ", "2", "0", "2", "6", " ", "EN_DASH", " ", "s", "o", "o", "n">>,
     <<"3", "0", "EN_DASH", "3", "1", " ", "F", "e", "b", " ", "2", "0", "2", "6">>,
     <<"3", "1", " ", "EN_DASH", " ", "3", " ", "F", "e", "b", " ", "2", "0", "2", "6">>,
     <<"1", "EM_DASH", "3", " ", "M", "a", "r", " ", "2", "0", "2", "7">>,
     <<"1", "MINUS", "3", " ", "M", "a", "r">>,
     <<"x", " ", "EN_DASH", " ", "y">>,
     <<"EN_DASH", " ", "3", " ", "F", "e", "b", " ", "2", "0", "2", "6">>,
     <<"3", " ", "F", "e", "b", " ", "2", "0", "2", "6", " ", "EN_DASH">>,
     <<"5", " ", "J", "a", "n", "u", "a", "r", "y", " ", "2", "0", "2", "6">>,
     <<"2", "9", " ", "F", "e", "b", " ", "2", "0", "2", "6">>,
     <<"2", "0", "2", "6", " ", "EN_DASH", " ", "3", " ", "J", "a", "n", " ", "2", "0", "2", "6">>,
     <<"Q", "1", " ", "EN_DASH", " ", "5", " ", "F", "e", "b", " ", "2", "0", "2", "6">>,
     <<"2", "8", " ", "J", "a", "n", "-", "1", " ", "F", "e", "b", "-", "2", "0", "2", "6">>,
     <<"1", " ", "F", "e", "b", " ", "2", "0", "2", "6", " ", "EN_DASH", " ", "3", " ", "F", "e", "b", " ", "2", "0", "2", "6">>,
     <<"1", "0", " ", "M", "a", "r">>,
     <<"0", " ", "J", "a", "n", " ", "2", "0", "2", "6">>,
     <<"3", "2", " ", "J", "a", "n", " ", "2", "0", "2", "6">>,
     <<"7", " ", "EN_DASH", " ", "9", " ", "M", "a", "r", " ", "2", "0", "2", "7">>,
     <<" ", "4", " ", "F", "e", "b", " ", "2", "0", "2", "6", " ">>,
     <<"w", "/", "e", " ", "5", " ", "EN_DASH", " ", "7", " ", "F", "e", "b", " ", "2", "0", "2", "6">>,
     <<"2", "9", " ", "EN_DASH", " ", "3", "0", " ", "A", "p", "r">>,
     <<"1", " ", "F", "e", "b", " ", "EN_DASH", " ", "3", "1", " ", "F", "e", "b", " ", "2", "0", "2", "6">>,
     <<"1", "2", " ", "-", " ", "1", "4", " ", "D", "e", "c", " ", "2", "0", "2", "5">>,
     <<"3", " ", "EN_DASH", " ", "1", " ", "F", "e", "b">>}

InitDates ==
    /\ tables = << >>
    /\ today_year \in TodayYears
    /\ pc = "returned"
    /\ grid = << >>
    /\ header_row_idx = 0
    /\ col_map = << >>
    /\ row_idx = 0
    /\ polls = << >>
    /\ emitted_rows = << >>
    /\ result = << >>
    /\ exc = "none"
    /\ StoreUnused
    /\ prev_run = None
    /\ caller_lists = << >>
    /\ fn = "_parse_fieldwork_dates"
    /\ fn_arg \in FieldworkTexts
    /\ fn_ret = None
    /\ fn_local = << >>

\* one call of _parse_fieldwork_dates
ParseFieldworkDates ==
    /\ fn = "_parse_fieldwork_dates"
    /\ fn_ret = None
    /\ fn_ret' = Some(_parse_fieldwork_dates(fn_arg, today_year))
    /\ UNCHANGED <<caller_lists, prev_run, fn, fn_arg, fn_local>>
    /\ UNCHANGED scrape_vars
    /\ UNCHANGED store_vars

NextDates == ParseFieldworkDates

SpecDates == InitDates /\ [][NextDates]_vars

\* ------------------------------------------------------------------------
\* The application's refreshes (app.py): lifespan runs one refresh before
\* the scheduler is started and before a request is served; the
\* scheduler's job and the handler of POST /polls/refresh then run
\* refresh_polling_data on threads of their own
\* ------------------------------------------------------------------------
\* the thread lifespan runs on
MainThread == 1

\* app.py line 56: the refresh at startup
StartupRefresh == CallRefresh(MainThread)

\* the scheduler started and requests served before the refresh at startup
\* has returned
StartupDone_AtOnce == TRUE

\* lifespan has got past line 56
StartupDone == tpc[MainThread] = "idle" /\ calls_left[MainThread] = 0

\* app.py lines 57-63 and 245: a refresh by the scheduler's job or by a
\* request handler
LaterRefresh(t) ==
    /\ t # MainThread
    /\ StartupDone
    /\ CallRefresh(t)

NextRace ==
    \/ StartupRefresh
    \/ \E t \in threads : LaterRefresh(t)
    \/ \E t \in threads : RefreshScrape(t)
    \/ \E t \in threads : RefreshCheck(t)
    \/ \E t \in threads : GetStatusAcquire(t)
    \/ \E t \in threads : GetStatusDates(t)
    \/ \E t \in threads : GetStatusReturn(t)
    \/ \E t \in threads : LoadAcquire(t)
    \/ \E t \in threads : LoadSetPolls(t)
    \/ \E t \in threads : LoadSetRefreshed(t)
    \/ \E t \in threads : LoadSetSource(t)
    \/ \E t \in threads : LoadReturn(t)

\* the main thread and NumThreads - 1 others, one refresh each
SpecRace == InitStore(1..NumThreads, 1) /\ [][NextRace]_vars

\* ------------------------------------------------------------------------
\* The queries of a loaded store and a caller who keeps the lists they
\* return (store.py lines 52-173)
\* ------------------------------------------------------------------------
MaxLists == 2

\* the identity of the list object self._polls names
StoreList == 0

\* the list object a reference names
ListAt(ref) == IF ref = StoreList THEN store_polls ELSE caller_lists[ref]

\* a new list object holding xs: its reference and the objects there are then
NewList(lists, xs) == [ref |-> Len(lists) + 1, lists |-> Append(lists, xs)]

\* get_all handing out the store's own list: return self._polls
get_all_SameList(lists, ps) == [ref |-> StoreList, lists |-> lists]

\* store.py line 54: list(self._polls)
get_all(lists, ps) == NewList(lists, ps)

\* store.py line 58: list(self._polls[:n])
get_latest(lists, ps, n) == NewList(lists, SliceTo(ps, n))

\* what a query returned: a reference to a list object, or a value
ReturnRef(ref) == Some([kind |-> "ref", ref |-> ref])

ReturnValue(v) == Some([kind |-> "value", value |-> v])

\* the lists load() is given before the queries
QueryBatches == {<< >>, <<PollC, PollA>>, <<PollNoGreen, PollA>>}

\* get_latest and get_summary: n
QueryCounts == {1, 10}

\* get_by_pollster: pollster
QueryPollsters == {<<"y", "o", "u", "G", "O", "V">>, <<"o">>, <<"x">>}

\* get_by_party: party
QueryParties == {<<"g", "r", "e", "e", "n">>, <<"L", "a", "b", "o", "u", "r">>,
                 <<"p", "i", "r", "a", "t", "e">>}

\* get_date_range: start and end
QueryRanges == {<<20260101, 20260131>>, <<20260201, 20260228>>}

\* date.today() in get_summary
QueryToday == 20261102

\* a store that one load() has filled, and a caller holding no list yet
InitQuery ==
    /\ ScrapeUnused
    /\ threads = {}
    /\ calls_left = << >>
    /\ tpc = << >>
    /\ tcall = << >>
    /\ tlocal = << >>
    /\ tret = << >>
    /\ tpre = << >>
    /\ callers = "one"
    /\ \E b \in QueryBatches :
          /\ store_polls = LoadedPolls(<< >>, b)
          /\ last_locker = Some([polls |-> b, source |-> "test"])
    /\ store_source = "test"
    /\ store_last_refreshed = Some(1)
    /\ lock = 0
    /\ clock = 1
    /\ AuxUnused

\* what a query leaves alone besides the store: it assigns nothing
QueryFrame ==
    /\ UNCHANGED scrape_vars
    /\ UNCHANGED store_vars
    /\ UNCHANGED <<prev_run, fn_local>>

\* store.py lines 52-54
QueryGetAll ==
    /\ lock = 0
    /\ Len(caller_lists) < MaxLists
    /\ \E r \in {get_all(caller_lists, store_polls)} :
          /\ caller_lists' = r.lists
          /\ fn_ret' = ReturnRef(r.ref)
    /\ fn' = "get_all"
    /\ fn_arg' = << >>
    /\ QueryFrame

\* store.py lines 56-58
QueryGetLatest ==
    /\ lock = 0
    /\ Len(caller_lists) < MaxLists
    /\ \E n \in QueryCounts :
       \E r \in {get_latest(caller_lists, store_polls, n)} :
          /\ caller_lists' = r.lists
          /\ fn_ret' = ReturnRef(r.ref)
          /\ fn_arg' = <<n>>
    /\ fn' = "get_latest"
    /\ QueryFrame

\* store.py lines 60-65
QueryGetByPollster ==
    /\ lock = 0
    /\ \E pollster \in QueryPollsters :
          /\ fn_ret' = ReturnValue(get_by_pollster(store_polls, pollster))
          /\ fn_arg' = <<pollster>>
    /\ fn' = "get_by_pollster"
    /\ UNCHANGED caller_lists
    /\ QueryFrame

\* store.py lines 67-89
QueryGetByParty ==
    /\ lock = 0
    /\ \E party \in QueryParties :
          /\ fn_ret' = ReturnValue(get_by_party(store_polls, party))
          /\ fn_arg' = <<party>>
    /\ fn' = "get_by_party"
    /\ UNCHANGED caller_lists
    /\ QueryFrame

\* store.py lines 91-99
QueryGetDateRange ==
    /\ lock = 0
    /\ \E range \in QueryRanges :
          /\ fn_ret' = ReturnValue(get_date_range(store_polls, range[1], range[2]))
          /\ fn_arg' = range
    /\ fn' = "get_date_range"
    /\ UNCHANGED caller_lists
    /\ QueryFrame

\* store.py lines 101-144
QueryGetSummary ==
    /\ lock = 0
    /\ \E n \in QueryCounts :
          /\ fn_ret' = ReturnValue(get_summary(store_polls, n, QueryToday))
          /\ fn_arg' = <<n>>
    /\ fn' = "get_summary"
    /\ UNCHANGED caller_lists
    /\ QueryFrame

\* store.py lines 146-159
QueryGetTrends ==
    /\ lock = 0
    /\ fn_ret' = ReturnValue(get_trends(store_polls))
    /\ fn' = "get_trends"
    /\ fn_arg' = << >>
    /\ UNCHANGED caller_lists
    /\ QueryFrame

\* store.py lines 161-173
QueryGetStatus ==
    /\ lock = 0
    /\ fn_ret' = ReturnValue(StatusOf(store_polls, StatusDates(store_polls),
                                      store_last_refreshed, store_source))
    /\ fn' = "get_status"
    /\ fn_arg' = << >>
    /\ UNCHANGED caller_lists
    /\ QueryFrame

\* the references the caller holds: the lists handed out, and what the last
\* query returned
CallerRefs ==
    (1..Len(caller_lists))
       \cup (IF ~IsNone(fn_ret) /\ Get(fn_ret).kind = "ref" THEN {Get(fn_ret).ref} ELSE {})

\* the caller's assignment to the list object ref names
SetList(ref, xs) ==
    IF ref = StoreList
    THEN /\ store_polls' = xs
         /\ UNCHANGED caller_lists
    ELSE /\ caller_lists' = [caller_lists EXCEPT ![ref] = xs]
         /\ UNCHANGED store_polls

\* what a caller's own statement leaves alone
CallerFrame ==
    /\ UNCHANGED scrape_vars
    /\ UNCHANGED <<store_last_refreshed, store_source, lock, clock, threads, calls_left,
                   tpc, tcall, tlocal, tret, tpre, last_locker, callers>>
    /\ UNCHANGED <<prev_run, fn, fn_arg, fn_ret, fn_local>>

\* a caller's returned.append(poll) on a list it was handed, of a poll the
\* list does not hold yet
CallerAppend ==
    /\ \E ref \in CallerRefs :
          /\ \A i \in 1..Len(ListAt(ref)) : ListAt(ref)[i] # PollB
          /\ SetList(ref, Append(ListAt(ref), PollB))
    /\ CallerFrame

\* a caller's returned.pop() on a list it was handed
CallerRemove ==
    /\ \E ref \in CallerRefs :
          /\ ListAt(ref) # << >>
          /\ SetList(ref, SubSeq(ListAt(ref), 1, Len(ListAt(ref)) - 1))
    /\ CallerFrame

NextQuery ==
    \/ QueryGetAll
    \/ QueryGetLatest
    \/ QueryGetByPollster
    \/ QueryGetByParty
    \/ QueryGetDateRange
    \/ QueryGetSummary
    \/ QueryGetTrends
    \/ QueryGetStatus
    \/ CallerAppend
    \/ CallerRemove

SpecQuery == InitQuery /\ [][NextQuery]_vars

\* ------------------------------------------------------------------------
\* Properties of the scrape pipeline
\* ------------------------------------------------------------------------
\* the present party values of a record
PresentValues(p) == {Get(p[f]) : f \in {g \in party_fields : ~IsNone(p[g])}}

\* the parties of a record that hold its largest present value
TopParties(p) == {f \in party_fields : p[f] = Some(Max(PresentValues(p)))}

\* the rows below the header the mapper went through
DataRows == (header_row_idx + 1)..Len(grid)

\* the columns of the header row that the column map gives the field f
FieldColumns(f) == {col_map[k].col : k \in {j \in 1..Len(col_map) : col_map[j].field = f}}

\* the field of a mapped column
ColumnField(c) == col_map[CHOOSE k \in 1..Len(col_map) : col_map[k].col = c].field

\* C1: every record of the returned list has a pollster that is non-empty
\* after trimming and at least one present party value; and a row with no
\* party columns at all does not pass the test that keeps a row.
C1_RecordsHavePollsterAndParty ==
    /\ \A i \in 1..Len(polls) :
          /\ Strip(polls[i].pollster) # << >>
          /\ PresentValues(polls[i]) # {}
    /\ pc = "returned" =>
          \A i \in 1..Len(result) :
             /\ Strip(result[i].pollster) # << >>
             /\ PresentValues(result[i]) # {}
    /\ ~RowKept(<<"Y", "G">>, << >>)

\* a list is returned with a record in it, and a row with three or more
\* non-empty cells was dropped by the test of line 299
C1_Witness ==
    /\ pc = "returned"
    /\ Len(result) >= 1
    /\ \E r \in DataRows :
          /\ Cardinality({j \in 1..Len(grid[r]) : Strip(grid[r][j]) # << >>}) >= 3
          /\ \A i \in 1..Len(emitted_rows) : emitted_rows[i] # r

\* C2 (as claimed): the pipeline raises for no table content; the only
\* exception scrape_polls ends with is the transport error of the fetch.
C2_NeverRaisesOnContent ==
    pc = "raised" => exc = "HTTPError"

\* C3 (as claimed): among the parties tied for the maximum of a record, the
\* leader is the first in the canonical order.
C3_TieGoesToCanonicalFirst ==
    pc = "returned" =>
       \A i \in 1..Len(result) :
          LET top   == TopParties(result[i])
              first == PARTY_FIELDS[Min({k \in 1..Len(PARTY_FIELDS) : PARTY_FIELDS[k] \in top})]
          IN  result[i].lead_party = Some(party_display(first))

\* C3 (amended): among the parties tied for the maximum of a record, the
\* leader is the one whose column stands leftmost in the table header.
C3_TieGoesToLeftmostColumn ==
    pc = "returned" =>
       \A i \in 1..Len(result) :
          LET top  == TopParties(result[i])
              left == Min(UNION {FieldColumns(f) : f \in top})
          IN  result[i].lead_party = Some(party_display(ColumnField(left)))

\* a returned record in which two parties tie for the maximum, from a table
\* whose Lab column stands left of its Con column
C3_Witness ==
    /\ pc = "returned"
    /\ \E i \in 1..Len(result) : Cardinality(TopParties(result[i])) >= 2
    /\ \E a \in FieldColumns("lab") : \E b \in FieldColumns("con") : a < b

\* the margin of a record, from its values: the maximum less the largest
\* value among the parties other than the leader, in hundredths
ExactMargin(p) ==
    LET leader == CHOOSE f \in TopParties(p) : p.lead_party = Some(party_display(f))
        others == {Get(p[f]) : f \in {g \in party_fields \ {leader} : ~IsNone(p[g])}}
    IN  Max(PresentValues(p)) - Max(others)

PresentCount(p) == Cardinality({f \in party_fields : ~IsNone(p[f])})

\* C4 (as claimed): the lead party of every record is defined and holds the
\* maximum of the present values; the lead margin is that maximum less the
\* largest value among the other present parties, and is undefined exactly
\* when fewer than two parties have a value.
C4_MarginIsExactDifference ==
    pc = "returned" =>
       \A i \in 1..Len(result) :
          LET p == result[i]
          IN  /\ \E f \in TopParties(p) : p.lead_party = Some(party_display(f))
              /\ IsNone(p.lead_pct) <=> PresentCount(p) < 2
              /\ PresentCount(p) >= 2 => p.lead_pct = Some(ExactMargin(p))

\* C4 (amended): as C4, with the lead margin the difference rounded to one
\* decimal place: a whole number of tenths, never negative, 0 on a tie, and
\* no further than half a tenth from the exact difference.
C4_MarginIsRoundedDifference ==
    pc = "returned" =>
       \A i \in 1..Len(result) :
          LET p == result[i]
          IN  /\ \E f \in TopParties(p) : p.lead_party = Some(party_display(f))
              /\ IsNone(p.lead_pct) <=> PresentCount(p) < 2
              /\ PresentCount(p) >= 2 =>
                    /\ Get(p.lead_pct) % 10 = 0
                    /\ Get(p.lead_pct) >= 0
                    /\ Get(p.lead_pct) - ExactMargin(p) \in -5..5
                    /\ Cardinality(TopParties(p)) >= 2 => Get(p.lead_pct) = 0

\* a returned list with a record of one party value only, a record with a
\* tie at the top and a record whose exact margin has a second decimal
C4_Witness ==
    /\ pc = "returned"
    /\ \E i \in 1..Len(result) : PresentCount(result[i]) = 1
    /\ \E i \in 1..Len(result) : Cardinality(TopParties(result[i])) >= 2
    /\ \E i \in 1..Len(result) :
          PresentCount(result[i]) >= 2 /\ ExactMargin(result[i]) % 10 # 0

\* C5: the returned list is in descending order of fieldwork end date, and
\* every record without an end date stands behind every record with one.
C5_NewestFirstMissingLast ==
    pc = "returned" =>
       \A i \in 1..Len(result) : \A j \in (i + 1)..Len(result) :
          /\ IsNone(result[i].fieldwork_end) => IsNone(result[j].fieldwork_end)
          /\ (~IsNone(result[i].fieldwork_end) /\ ~IsNone(result[j].fieldwork_end)) =>
                Get(result[i].fieldwork_end) >= Get(result[j].fieldwork_end)

\* a returned list of three records, two end dates and one missing, that
\* the rows of the table gave in another order
C5_Witness ==
    /\ pc = "returned"
    /\ Len(result) = 3
    /\ result # polls
    /\ IsNone(result[3].fieldwork_end)
    /\ ~IsNone(result[2].fieldwork_end)
    /\ Get(result[1].fieldwork_end) > Get(result[2].fieldwork_end)

\* a grid row with at least 3 non-empty cells, a non-empty pollster and at
\* least one present party value
Qualifies(r) ==
    /\ Cardinality({j \in 1..Len(grid[r]) : Strip(grid[r][j]) # << >>}) >= 3
    /\ \E c \in FieldColumns("pollster") :
          /\ c = Max(FieldColumns("pollster"))
          /\ Strip(grid[r][c]) # << >>
    /\ \E f \in party_fields :
          /\ FieldColumns(f) # {}
          /\ ~IsNone(_parse_percentage(grid[r][Max(FieldColumns(f))]))

\* C10: once the pass over the rows has ended, the records emitted are those
\* of the qualifying rows below the header, one each and in row order,
\* wherever the disqualified rows stand among them.
C10_EveryQualifyingRowEmitted ==
    (pc = "returned" /\ header_row_idx # 0) =>
       /\ Len(result) = Cardinality({r \in DataRows : Qualifies(r)})
       /\ {emitted_rows[i] : i \in 1..Len(emitted_rows)} = {r \in DataRows : Qualifies(r)}
       /\ \A i \in 1..Len(emitted_rows) : \A j \in (i + 1)..Len(emitted_rows) :
             emitted_rows[i] < emitted_rows[j]

\* a pass over three data rows whose first row is disqualified and whose
\* last row, behind another disqualified row or a qualifying one, is emitted
C10_Witness ==
    /\ pc = "returned"
    /\ header_row_idx # 0
    /\ Len(grid) = header_row_idx + 3
    /\ ~Qualifies(header_row_idx + 1)
    /\ Qualifies(header_row_idx + 3)
    /\ \E i \in 1..Len(emitted_rows) : emitted_rows[i] = header_row_idx + 3

\* the text of row r under the last column the map gives field f; None when
\* the map gives the field no column
CellUnder(r, f) ==
    IF FieldColumns(f) = {} THEN None ELSE Some(grid[r][Max(FieldColumns(f))])

\* the record a row gives when every field is parsed from its own cell and
\* from nothing else
FieldwiseRecord(r, p) ==
    /\ p.pollster = Strip(Get(CellUnder(r, "pollster")))
    /\ \A f \in party_fields :
          p[f] = (IF IsNone(CellUnder(r, f)) THEN None
                  ELSE _parse_percentage(Get(CellUnder(r, f))))
    /\ p.sample_size = (IF IsNone(CellUnder(r, "sample_size")) THEN None
                        ELSE _parse_sample_size(Get(CellUnder(r, "sample_size"))))
    /\ IF IsNone(CellUnder(r, "fieldwork"))
       THEN IsNone(p.fieldwork_start) /\ IsNone(p.fieldwork_end)
       ELSE \E fw \in {_parse_fieldwork_dates(Get(CellUnder(r, "fieldwork")), today_year)} :
               p.fieldwork_start = fw.start /\ p.fieldwork_end = fw.end_

\* a grid row with a non-empty pollster and at least one present party value
HasPollsterAndParty(r) ==
    /\ ~IsNone(CellUnder(r, "pollster"))
    /\ Strip(Get(CellUnder(r, "pollster"))) # << >>
    /\ \E f \in party_fields :
          /\ ~IsNone(CellUnder(r, f))
          /\ ~IsNone(_parse_percentage(Get(CellUnder(r, f))))

\* C11 (as claimed): every row below the header with a non-empty pollster and
\* at least one present party value is emitted, each field of its record
\* parsed from its own cell and missing exactly when that cell does not parse.
C11_RowWithPollsterAndPartyEmitted ==
    (pc = "returned" /\ header_row_idx # 0) =>
       \A r \in DataRows :
          HasPollsterAndParty(r) =>
             \E i \in 1..Len(emitted_rows) :
                emitted_rows[i] = r /\ FieldwiseRecord(r, polls[i])

\* C11 (amended): every row below the header with at least 3 non-empty cells,
\* a non-empty pollster and at least one present party value is emitted, each
\* field of its record parsed from its own cell and missing exactly when
\* that cell does not parse.
C11_QualifyingRowEmittedFieldwise ==
    (pc = "returned" /\ header_row_idx # 0) =>
       \A r \in DataRows :
          Qualifies(r) =>
             \E i \in 1..Len(emitted_rows) :
                emitted_rows[i] = r /\ FieldwiseRecord(r, polls[i])

\* field f of row r has a text that does not parse
BadCell(r, f, Parses(_)) ==
    /\ ~IsNone(CellUnder(r, f))
    /\ Strip(Get(CellUnder(r, f))) # << >>
    /\ ~Parses(Get(CellUnder(r, f)))

\* emitted rows with a fieldwork text, a sample-size text and a party cell
\* that do not parse, their records without those fields and with the others
C11_Witness ==
    /\ pc = "returned"
    /\ \E i \in 1..Len(emitted_rows) :
          /\ BadCell(emitted_rows[i], "fieldwork",
                     LAMBDA t : ~IsNone(_parse_fieldwork_dates(t, today_year).end_))
          /\ IsNone(polls[i].fieldwork_end)
          /\ ~IsNone(polls[i].con)
    /\ \E i \in 1..Len(emitted_rows) :
          /\ BadCell(emitted_rows[i], "sample_size", LAMBDA t : ~IsNone(_parse_sample_size(t)))
          /\ BadCell(emitted_rows[i], "green", LAMBDA t : ~IsNone(_parse_percentage(t)))
          /\ IsNone(polls[i].sample_size)
          /\ IsNone(polls[i].green)
          /\ ~IsNone(polls[i].fieldwork_end)
          /\ ~IsNone(polls[i].reform)

\* ------------------------------------------------------------------------
\* Properties of two runs of scrape_polls
\* ------------------------------------------------------------------------
\* the second run has returned
SecondReturned == pc = "returned" /\ ~IsNone(prev_run)

\* two one-table pages of the same shape whose cells differ, if at all, in
\* the text of cells below the header row and under a header recognized as lead
DifferOnlyUnderLead(ta, tb) ==
    /\ Len(ta) = 1 /\ Len(tb) = 1
    /\ Len(ta[1]) = Len(tb[1])
    /\ \A r \in 1..Len(ta[1]) :
          /\ Len(ta[1][r]) = Len(tb[1][r])
          /\ \A c \in 1..Len(ta[1][r]) :
                ta[1][r][c] # tb[1][r][c] =>
                   /\ r > 1
                   /\ HeaderField(ta[1][1][c].text) = "lead"
                   /\ ta[1][r][c].rowspan = tb[1][r][c].rowspan
                   /\ ta[1][r][c].colspan = tb[1][r][c].colspan

\* every cell is blank in both pages or in neither
BlankAlike(ta, tb) ==
    \A r \in 1..Len(ta[1]) : \A c \in 1..Len(ta[1][r]) :
       (Strip(ta[1][r][c].text) = << >>) <=> (Strip(tb[1][r][c].text) = << >>)

\* C12 (as claimed): two tables that differ only in the text of the cells
\* under the header recognized as lead yield identical record lists.
C12_LeadTextNeverInfluences ==
    (/\ SecondReturned
     /\ Get(prev_run).today_year = today_year
     /\ DifferOnlyUnderLead(Get(prev_run).tables, tables))
    => result = Get(prev_run).result

\* C12 (amended): two tables that differ only in the text of the cells
\* under the header recognized as lead, that are both located as the polling
\* table and that have each such cell blank in both or non-blank in both,
\* yield identical record lists: no field of a record, lead_party and
\* lead_pct included, is taken from a lead cell.
C12_LeadTextOnlyCountsAsNonEmpty ==
    (/\ SecondReturned
     /\ Get(prev_run).today_year = today_year
     /\ DifferOnlyUnderLead(Get(prev_run).tables, tables)
     /\ TargetTable(Get(prev_run).tables) # 0
     /\ TargetTable(tables) # 0
     /\ BlankAlike(Get(prev_run).tables, tables))
    => result = Get(prev_run).result

\* two runs on pages with different non-blank lead texts, the same records
\* with a lead returned by both
C12_Witness ==
    /\ SecondReturned
    /\ Get(prev_run).today_year = today_year
    /\ Get(prev_run).tables # tables
    /\ DifferOnlyUnderLead(Get(prev_run).tables, tables)
    /\ BlankAlike(Get(prev_run).tables, tables)
    /\ result = Get(prev_run).result
    /\ \E i \in 1..Len(result) : ~IsNone(result[i].lead_pct)

\* every fieldwork text below the header names a year
YearInEveryFieldwork ==
    \A r \in DataRows : \A c \in FieldColumns("fieldwork") :
       ~IsNone(YearSearch(Strip(grid[r][c])))

\* C13: a second run on the same markup returns the same list, record for
\* record and in the same order, when the year is the same at both runs or
\* every fieldwork text names its year.
C13_RerunGivesSameList ==
    (/\ SecondReturned
     /\ Get(prev_run).tables = tables
     /\ (Get(prev_run).today_year = today_year \/ YearInEveryFieldwork))
    => result = Get(prev_run).result

\* the same page scraped in two different years, every fieldwork text with
\* its year, a record without an end date in the list
C13_Witness ==
    /\ SecondReturned
    /\ Get(prev_run).tables = tables
    /\ Get(prev_run).today_year # today_year
    /\ YearInEveryFieldwork
    /\ result = Get(prev_run).result
    /\ Len(result) >= 2
    /\ ~IsNone(result[1].fieldwork_end)
    /\ IsNone(result[2].fieldwork_end)

\* the row maps at least 3 distinct fields of con, lab, lib_dem, reform, green
CountsAsHeader(row) ==
    Cardinality({HeaderField(row[c]) : c \in 1..Len(row)}
                \cap {"con", "lab", "lib_dem", "reform", "green"}) >= 3

\* C18 (the grid has one row per row of the located table): a located
\* table of fewer than 3 grid rows gives an empty result;
\* otherwise the header is the first of grid rows 0..min(3, row_count - 1)
\* that maps at least 3 distinct fields of con, lab, lib_dem, reform, green,
\* every record comes from a row below it, and the result is empty when
\* none of those rows qualifies.
C18_HeaderIsFirstQualifyingOfFour ==
    (pc = "returned" /\ TargetTable(tables) # 0) =>
       IF Len(tables[TargetTable(tables)]) < 3
       THEN result = << >> /\ emitted_rows = << >>
       ELSE /\ Len(grid) = Len(tables[TargetTable(tables)])
            /\ \E cands \in {{i \in 1..Min({4, Len(grid)}) : CountsAsHeader(grid[i])}} :
                  IF cands = {}
                  THEN result = << >> /\ emitted_rows = << >> /\ header_row_idx = 0
                  ELSE /\ header_row_idx = Min(cands)
                       /\ col_map = _identify_columns(grid[Min(cands)])
                       /\ \A k \in 1..Len(emitted_rows) : emitted_rows[k] > Min(cands)

\* the fifth grid row would qualify as the header, none of the first four
\* does, and the result is empty
C18_Witness ==
    /\ pc = "returned"
    /\ Len(grid) >= 5
    /\ CountsAsHeader(grid[5])
    /\ \A i \in 1..4 : ~CountsAsHeader(grid[i])
    /\ header_row_idx = 0
    /\ result = << >>

\* ------------------------------------------------------------------------
\* Properties of the store and of the refresh
\* ------------------------------------------------------------------------
\* how often record p stands in list ps
Count(ps, p) == Cardinality({i \in 1..Len(ps) : ps[i] = p})

\* two lists hold the same records, each as often
SameRecords(ps, qs) ==
    /\ Len(ps) = Len(qs)
    /\ \A i \in 1..Len(ps) : Count(ps, ps[i]) = Count(qs, ps[i])

\* thread t is back from a call of the given name
Returned(t, name) == tpc[t] = "idle" /\ tcall[t].name = name

\* C6: when a direct load has returned, the store holds exactly the records
\* that load was given, each as often as given and whatever it held before,
\* the source is that load's source, and the load returned the number of
\* records it was given.
C6_LoadReplacesCollection ==
    \A t \in threads :
       Returned(t, "load") =>
          /\ SameRecords(store_polls, tlocal[t].polls)
          /\ store_source = tlocal[t].source
          /\ tret[t] = ReturnCount(Len(tlocal[t].polls))

\* a second load has returned; the store held a record before it that the
\* load was not given, and another source
C6_Witness ==
    \E t \in threads :
       /\ Returned(t, "load")
       /\ clock = 2
       /\ tlocal[t].polls # << >>
       /\ tpre[t].source # tlocal[t].source
       /\ \E i \in 1..Len(tpre[t].polls) : Count(tlocal[t].polls, tpre[t].polls[i]) = 0

\* the end dates present in a list
PresentEnds(ps) ==
    {Get(ps[i].fieldwork_end) : i \in {k \in 1..Len(ps) : ~IsNone(ps[k].fieldwork_end)}}

\* newest end date first, the missing end dates last
NewestFirst(ps) ==
    \A i \in 1..Len(ps) : \A j \in (i + 1)..Len(ps) :
       /\ IsNone(ps[i].fieldwork_end) => IsNone(ps[j].fieldwork_end)
       /\ (~IsNone(ps[i].fieldwork_end) /\ ~IsNone(ps[j].fieldwork_end)) =>
             Get(ps[i].fieldwork_end) >= Get(ps[j].fieldwork_end)

\* the first min(n, size) records of a list
FirstOf(ps, n) == [i \in 1..(IF n < Len(ps) THEN n ELSE Len(ps)) |-> ps[i]]

\* C7: the stored list is at all times newest end date first with the missing
\* end dates last; get_latest(n), n >= 1, returns its first min(n, size)
\* records; get_status reports the largest and the smallest present end date
\* as latest_poll_date and oldest_poll_date.
C7_StoredOrderAndReaders ==
    /\ NewestFirst(store_polls)
    /\ \A t \in threads :
          /\ Returned(t, "get_latest") =>
                /\ tcall[t].n >= 1
                /\ tret[t] = ReturnPolls(FirstOf(store_polls, tcall[t].n))
          /\ (Returned(t, "get_status") /\ PresentEnds(store_polls) # {}) =>
                /\ tret[t].kind = "status"
                /\ tret[t].status.latest_poll_date = Some(Max(PresentEnds(store_polls)))
                /\ tret[t].status.oldest_poll_date = Some(Min(PresentEnds(store_polls)))

\* get_latest(1) has returned the newer record of a list that was loaded
\* with its record without end date in front
C7_Witness ==
    \E t \in threads :
       /\ Returned(t, "get_latest")
       /\ tcall[t].n = 1
       /\ last_locker = Some([polls |-> <<PollC, PollB>>, source |-> "test"])
       /\ store_polls = <<PollB, PollC>>
       /\ tret[t].polls = <<PollB>>

\* the scrape of a refresh raised or returned nothing
ScrapeFailed(t) == tlocal[t].scraped \notin {"none", "polls"}

\* C8: a refresh loads the seed data only when its scrape raised or returned
\* nothing and the store held no record; when the scrape raised or returned
\* nothing and the store held records, the refresh leaves records, source and
\* last-refreshed time as they were and returns 0; and no refresh ends with
\* the exception of its scrape.
C8_SeedOnlyWhenFailedAndEmpty ==
    \A t \in threads :
       /\ tpc[t] # "refresh_raised"
       /\ (tcall[t].name = "refresh" /\ tlocal[t].fell_back) =>
             ScrapeFailed(t) /\ tpre[t].polls = << >>
       /\ (Returned(t, "refresh") /\ ScrapeFailed(t) /\ tpre[t].polls # << >>) =>
             /\ StoreNow = tpre[t]
             /\ tret[t] = ReturnCount(0)

\* a refresh whose scrape raised has returned 0 over a store that held records
C8_Witness ==
    \E t \in threads :
       /\ Returned(t, "refresh")
       /\ tlocal[t].scraped = "ValueError"
       /\ tpre[t].polls # << >>
       /\ tret[t] = ReturnCount(0)
       /\ ~tlocal[t].fell_back

\* the statements of load() that hold the lock
LoadBody == {"load_polls", "load_refreshed", "load_source", "load_return"}

\* the loads that have taken the lock so far, and the store as constructed
LoadsStarted ==
    {[polls |-> tlocal[t].polls, source |-> tlocal[t].source] :
        t \in {u \in threads : tcall[u].name = "load" /\ tpc[u] \in LoadBody \cup {"idle"}}}
       \cup {[polls |-> << >>, source |-> "none"]}

\* what a reader returns when the store holds all of load l and nothing else
ReflectsLoad(t, l) ==
    LET ps == SortNewestFirst(l.polls)
    IN  CASE tcall[t].name = "get_all"    -> tret[t] = ReturnPolls(ps)
          [] tcall[t].name = "get_latest" -> tret[t] = ReturnPolls(FirstOf(ps, tcall[t].n))
          [] tcall[t].name = "get_status" ->
                /\ tret[t].kind = "status"
                /\ tret[t].status.total_polls = Len(ps)
                /\ tret[t].status.latest_poll_date =
                      (IF PresentEnds(ps) # {} THEN Some(Max(PresentEnds(ps))) ELSE None)
                /\ tret[t].status.oldest_poll_date =
                      (IF PresentEnds(ps) # {} THEN Some(Min(PresentEnds(ps))) ELSE None)
                /\ tret[t].status.source = l.source
          [] OTHER -> FALSE

Readers == {"get_all", "get_latest", "get_status"}

\* C9: with threads calling load and the readers at the same time, whenever
\* no load is inside its locked statements the store holds the sorted list
\* and the source of the load that took the lock last, and what a reader has
\* returned is what it returns over the whole list and source of one load
\* (or over the store as constructed).
C9_LastWriteWinsAtomic ==
    /\ (\A t \in threads : tpc[t] \notin LoadBody) /\ ~IsNone(last_locker) =>
          /\ store_polls = SortNewestFirst(Get(last_locker).polls)
          /\ store_source = Get(last_locker).source
    /\ \A t \in threads :
          (tpc[t] = "idle" /\ tcall[t].name \in Readers) =>
             \E l \in LoadsStarted : ReflectsLoad(t, l)

\* two loads of different lists have returned, the store holds the list of
\* the one that took the lock last, and a get_status has returned the count
\* and source of the other one
C9_Witness ==
    \E t1, t2, t3 \in threads :
       /\ Returned(t1, "load") /\ Returned(t2, "load") /\ Returned(t3, "get_status")
       /\ tlocal[t1].polls # tlocal[t2].polls
       /\ last_locker = Some([polls |-> tlocal[t2].polls, source |-> tlocal[t2].source])
       /\ store_polls = SortNewestFirst(tlocal[t2].polls)
       /\ tret[t3].status.total_polls = Len(tlocal[t1].polls)
       /\ tret[t3].status.source = tlocal[t1].source

\* ------------------------------------------------------------------------
\* Properties of get_by_party
\* ------------------------------------------------------------------------
\* the party codes and the synonyms, each with the party it names
PartyNameTable ==
    << [name |-> <<"c", "o", "n">>, field |-> "con"],
       [name |-> <<"l", "a", "b">>, field |-> "lab"],
       [name |-> <<"l", "i", "b", "_", "d", "e", "m">>, field |-> "lib_dem"],
       [name |-> <<"r", "e", "f", "o", "r", "m">>, field |-> "reform"],
       [name |-> <<"g", "r", "e", "e", "n">>, field |-> "green"],
       [name |-> <<"s", "n", "p">>, field |-> "snp"],
       [name |-> <<"o", "t", "h", "e", "r">>, field |-> "other"],
       [name |-> <<"l", "a", "b", "o", "u", "r">>, field |-> "lab"],
       [name |-> <<"c", "o", "n", "s", "e", "r", "v", "a", "t", "i", "v", "e">>, field |-> "con"],
       [name |-> <<"l", "i", "b", "e", "r", "a", "l", " ", "d", "e", "m", "o", "c", "r", "a", "t", "s">>, field |-> "lib_dem"],
       [name |-> <<"r", "e", "f", "o", "r", "m", " ", "u", "k">>, field |-> "reform"],
       [name |-> <<"g", "r", "e", "e", "n", "s">>, field |-> "green"] >>

\* the data points of the polls ps with a value for field f, in stored order
PointsFor(ps, f) ==
    LET idx    == {k \in 1..Len(ps) : ~IsNone(ps[k][f])}
        nth(j) == CHOOSE k \in idx : Cardinality({i \in idx : i < k}) = j - 1
    IN  [j \in 1..Cardinality(idx) |->
            [date     |-> IF IsNone(ps[nth(j)].fieldwork_end) THEN ps[nth(j)].fieldwork_start
                          ELSE ps[nth(j)].fieldwork_end,
             value    |-> Get(ps[nth(j)][f]),
             pollster |-> ps[nth(j)].pollster]]

\* C14: get_by_party, called with a party code or one of the synonyms
\* labour, conservative, liberal democrats, reform uk, greens in any case,
\* returns one data point per stored record with a value for that party;
\* called with a name that is no party's, it returns an empty list.
C14_ResolvesCodesAndSynonyms ==
    (fn = "get_by_party" /\ ~IsNone(fn_ret)) =>
       LET hits == {i \in 1..Len(PartyNameTable) : PartyNameTable[i].name = Lower(fn_arg)}
       IN  /\ hits # {} =>
                \A i \in hits : Get(fn_ret) = PointsFor(store_polls, PartyNameTable[i].field)
           /\ fn_arg \in {<<"p", "i", "r", "a", "t", "e">>, << >>} => Get(fn_ret) = << >>

\* ------------------------------------------------------------------------
\* Properties of _identify_columns
\* ------------------------------------------------------------------------
\* the party code of a trimmed, lower-cased header text that is a party
\* synonym, "" otherwise
SynonymField(h) ==
    LET hits == {i \in 1..Len(PARTY_COLUMN_MAP) : PARTY_COLUMN_MAP[i].key = h}
    IN  IF hits = {} THEN "" ELSE PARTY_COLUMN_MAP[CHOOSE i \in hits : TRUE].field

\* the first of the rules, each a field with the substrings that give it,
\* that the text h matches; "" when none does
FirstRule(h, rules) ==
    LET hits == {k \in 1..Len(rules) : \E sub \in rules[k].subs : Contains(h, sub)}
    IN  IF hits = {} THEN "" ELSE rules[Min(hits)].field

\* the substring rules as claimed
RulesClaimed ==
    << [field |-> "fieldwork",   subs |-> {<<"d", "a", "t", "e">>, <<"f", "i", "e", "l", "d", "w", "o", "r", "k">>}],
       [field |-> "pollster",    subs |-> {<<"p", "o", "l", "l", "i", "n", "g">>, <<"p", "o", "l", "l", "s", "t", "e", "r">>, <<"o", "r", "g", "a", "n", "i", "s", "a", "t", "i", "o", "n">>}],
       [field |-> "client",      subs |-> {<<"c", "l", "i", "e", "n", "t">>, <<"c", "o", "m", "m", "i", "s", "s", "i", "o", "n", "e", "r">>}],
       [field |-> "sample_size", subs |-> {<<"s", "a", "m", "p", "l", "e">>, <<"s", "i", "z", "e">>}],
       [field |-> "lead",        subs |-> {<<"l", "e", "a", "d">>}] >>

\* the substring rules with the area rule before the lead rule
RulesWithArea ==
    SubSeq(RulesClaimed, 1, 4)
    \o <<[field |-> "area", subs |-> {<<"a", "r", "e", "a">>}]>>
    \o SubSeq(RulesClaimed, 5, 5)

\* the returned map has, for every header cell, the one entry the rules
\* give its own text, or none
MapFollows(rules) ==
    LET ret == Get(fn_ret)
        field(i) == IF SynonymField(Lower(Strip(fn_arg[i]))) # ""
                    THEN SynonymField(Lower(Strip(fn_arg[i])))
                    ELSE FirstRule(Lower(Strip(fn_arg[i])), rules)
    IN  /\ \A k \in 1..Len(ret) : ret[k].col \in 1..Len(fn_arg)
        /\ \A i \in 1..Len(fn_arg) :
              /\ Cardinality({k \in 1..Len(ret) : ret[k].col = i}) <= 1
              /\ field(i) = "" => ~\E k \in 1..Len(ret) : ret[k].col = i
              /\ field(i) # "" => \E k \in 1..Len(ret) : ret[k] = [col |-> i, field |-> field(i)]

\* the entry of every column is the entry its text gets as the only header
OwnTextOnly ==
    \A i \in 1..Len(fn_arg) :
       {Get(fn_ret)[k].field : k \in {j \in 1..Len(Get(fn_ret)) : Get(fn_ret)[j].col = i}}
       = {e.field : e \in {_identify_columns(<<fn_arg[i]>>)[k] :
                              k \in 1..Len(_identify_columns(<<fn_arg[i]>>))}}

\* C15 (as claimed): each header cell, trimmed and lower-cased, gets the
\* party code of an exact party synonym, otherwise the first of fieldwork,
\* pollster, client, sample_size, lead whose substring it holds, otherwise
\* no entry; the entry depends on the cell's own text only.
C15_FieldsAsClaimed ==
    (fn = "_identify_columns" /\ ~IsNone(fn_ret)) => (MapFollows(RulesClaimed) /\ OwnTextOnly)

\* C15 (amended): each header cell, trimmed and lower-cased, gets the party
\* code of an exact party synonym, otherwise the first of fieldwork,
\* pollster, client, sample_size, area, lead whose substring it holds,
\* otherwise no entry; the entry depends on the cell's own text only.
C15_FieldsWithArea ==
    (fn = "_identify_columns" /\ ~IsNone(fn_ret)) => (MapFollows(RulesWithArea) /\ OwnTextOnly)

\* a header naming the pollster and the client, mapped next to one that
\* holds both area and lead
C15_Witness ==
    /\ fn = "_identify_columns"
    /\ fn_arg = <<<<"P", "o", "l", "l", "i", "n", "g", " ", "o", "r", "g", "a", "n", "i", "s", "a", "t", "i", "o", "n", "/", "c", "l", "i", "e", "n", "t">>, <<"L", "e", "a", "d", " ", "a", "r", "e", "a">>>>
    /\ fn_ret = Some(<<[col |-> 1, field |-> "pollster"], [col |-> 2, field |-> "area"]>>)

\* ------------------------------------------------------------------------
\* Properties of _expand_rowspans
\* ------------------------------------------------------------------------
\* the slots of the working grid, row and column from 1
GridSlots(g) == {<<r, j>> : r \in 1..Len(g), j \in 1..(IF Len(g) = 0 THEN 0 ELSE Len(g[1]))}

\* slot s was written last by a cell of a row above its own
FilledFromAbove(owner, s) ==
    /\ ~IsNone(owner[s[1]][s[2]])
    /\ Get(owner[s[1]][s[2]])[1] < s[1]

\* C16: no step of the grid builder writes a cell of a later row into a slot
\* that the rowspan of a cell of an earlier row has filled.
C16_NoOverwriteOfRowspanSlot ==
    [][fn = "_expand_rowspans" /\ fn_local.phase = "place" /\ fn_local'.phase = "place" =>
          \A s \in GridSlots(fn_local.owner) :
             FilledFromAbove(fn_local.owner, s) =>
                fn_local'.owner[s[1]][s[2]] = fn_local.owner[s[1]][s[2]]]_vars

\* the slots of a grid of n_rows rows and max_cols columns that the
\* rectangle of the placed cell p covers
Covered(p, n_rows, max_cols) ==
    {<<r, j>> \in (1..n_rows) \X (1..max_cols) :
        /\ r >= p.row /\ r < p.row + p.rowspan
        /\ j >= p.col /\ j < p.col + p.colspan}

\* C17: the returned grid has one row per table row, every row max_cols
\* wide with max_cols the largest sum of colspans of a row, every slot a
\* text; and every placed cell's text stands in every slot its rowspan x
\* colspan rectangle covers.
C17_RectangularAndCovered ==
    (fn = "_expand_rowspans" /\ fn_local.phase = "returned" /\ Len(fn_arg) > 0) =>
       LET g == Get(fn_ret)
           max_cols == Max({SumColspans(fn_arg[r], 1) : r \in 1..Len(fn_arg)})
       IN  /\ Len(g) = Len(fn_arg)
           /\ \A r \in 1..Len(g) : Len(g[r]) = max_cols
           /\ \A k \in 1..Len(fn_local.placed) :
                 \A s \in Covered(fn_local.placed[k], Len(g), max_cols) :
                    g[s[1]][s[2]] = fn_local.placed[k].text

\* ------------------------------------------------------------------------
\* Properties of _parse_fieldwork_dates
\* ------------------------------------------------------------------------
\* the year both sides share: the first 20dd of the text, else today's
SharedYear(text) ==
    IF IsNone(YearSearch(text)) THEN today_year ELSE Get(YearSearch(text))

\* one side of the range parsed on its own
SideDate(side, text) == _parse_date_text(Strip(side), Some(SharedYear(text)), today_year)

\* a bare day number: one or two digits and nothing else
BareDay(side) ==
    /\ Len(Strip(side)) \in {1, 2}
    /\ \A i \in 1..Len(Strip(side)) : IsDigit(Strip(side)[i])

\* the start a side gives when it holds a day number to join with the
\* month of the end date
StartFromEnd(side, end_date, text) ==
    IF IsNone(end_date) THEN None
    ELSE DateOrNone(SharedYear(text), DateMonth(Get(end_date)), Get(DaySearch(Strip(side))))

\* C19: with a separator, the end is the end side parsed on its own and the
\* start the start side parsed on its own, except that a start side that is
\* a bare day number takes the month of the end date; a side that does not
\* parse gives a missing date. Without a separator both are the one date
\* of the whole text.
C19_SidesResolvedIndependently ==
    (fn = "_parse_fieldwork_dates" /\ ~IsNone(fn_ret)) =>
       LET text  == Strip(fn_arg)
           parts == SplitOnDash(text)
           ret   == Get(fn_ret)
       IN  IF text = << >> THEN ret = [start |-> None, end_ |-> None]
           ELSE IF Len(parts) = 1
           THEN ret.start = ret.end_ /\ ret.end_ = SideDate(text, text)
           ELSE /\ ret.end_ = SideDate(parts[2], text)
                /\ ret.start =
                      (IF ~IsNone(SideDate(parts[1], text)) THEN SideDate(parts[1], text)
                       ELSE IF BareDay(parts[1]) THEN StartFromEnd(parts[1], ret.end_, text)
                       ELSE None)

\* ------------------------------------------------------------------------
\* Properties of concurrent refreshes
\* ------------------------------------------------------------------------
\* thread t is in load() with the seed data and writes them in this step
SeedWrittenBy(t) ==
    /\ tpc[t] = "load_polls"
    /\ tpc'[t] = "load_refreshed"
    /\ tlocal[t].source = "seed_data"

\* C20: in every interleaving of the refreshes that follow the startup
\* refresh, no step turns the store's source from "wikipedia" to
\* "seed_data", and no step writes the seed data over records that a
\* successful scrape has loaded.
C20_SeedNeverReplacesScraped ==
    [][/\ store_source = "wikipedia" => store_source' # "seed_data"
       /\ \A t \in threads : SeedWrittenBy(t) => store_source # "wikipedia"]_vars

\* two refreshes begun on the seed data the startup refresh had loaded: one
\* fails to scrape and makes its emptiness check before the other loads
\* what it scraped; it returns 0 and the scraped records stay
C20_Witness ==
    \E a, b \in threads \ {MainThread} :
       /\ a # b
       /\ Returned(a, "refresh") /\ Returned(b, "refresh")
       /\ tpre[a].source = "seed_data" /\ tpre[b].source = "seed_data"
       /\ tlocal[a].scraped = "polls"
       /\ tlocal[b].scraped = "HTTPError"
       /\ tlocal[b].status.source = "seed_data"
       /\ tret[b] = ReturnCount(0)
       /\ store_source = "wikipedia"
       /\ store_polls = SortNewestFirst(tlocal[a].polls)

\* ------------------------------------------------------------------------
\* Properties of the queries
\* ------------------------------------------------------------------------
\* the stored list as the load before the queries left it
AsLoaded == SortNewestFirst(Get(last_locker).polls)

\* this step is a query that handed out a list
HandsOutList == fn' \in {"get_all", "get_latest"} /\ fn_ret' # fn_ret

\* C21: no query and no caller's addition to or removal from a list that
\* get_all or get_latest returned changes the stored records, their order,
\* the source or the last-refreshed time; and a list that get_all or
\* get_latest hands out is a new object, neither the store's own list nor
\* one handed out before, holding what the load left in the store (all of
\* it, or its first n records), whatever the caller did to earlier lists.
C21_QueriesReadOnlyListsFresh ==
    [][/\ store_polls' = store_polls
       /\ store_source' = store_source
       /\ store_last_refreshed' = store_last_refreshed
       /\ store_polls = AsLoaded
       /\ HandsOutList =>
             /\ Get(fn_ret').ref # StoreList
             /\ Get(fn_ret').ref \notin 1..Len(caller_lists)
             /\ caller_lists'[Get(fn_ret').ref] =
                   (IF fn' = "get_all" THEN AsLoaded ELSE SliceTo(AsLoaded, fn_arg'[1]))
             /\ \A r \in 1..Len(caller_lists) : caller_lists'[r] = caller_lists[r]]_vars

\* get_all has handed out a list, the caller has removed its last record and
\* added another so that it now differs from the stored list, and a later get_all
\* has handed out a second list equal to the stored one
C21_Witness ==
    /\ fn = "get_all"
    /\ Len(caller_lists) = 2
    /\ Get(fn_ret).ref = 2
    /\ Len(store_polls) = 2
    /\ caller_lists[1] = <<store_polls[1], PollB>>
    /\ caller_lists[2] = store_polls

\* ------------------------------------------------------------------------
\* The scrape as the model checked by default
\* ------------------------------------------------------------------------
Init == InitScrape

Next == NextScrape

Spec == Init /\ [][Next]_vars
====
